---- MODULE Spec2Model ----
(***************************************************************************)
(* On-screen controllers: the joystick, the directional pad, the           *)
(* retractable slider and the button, as event-driven state machines.      *)
(*                                                                         *)
(* Lengths are integers in one arbitrary unit.  Three quantities of the    *)
(* source are fractions and are kept exact by a scale that is part of the  *)
(* field's meaning:                                                        *)
(*   - a rectangle's centre left + width/2 is kept doubled (offsets x2,    *)
(*     y2 are twice the source's x, y);                                    *)
(*   - thumbMaxDistance = (radius - offsetWidth) / 1.5 is kept in thirds;  *)
(*   - inputRegisterDistance = min(w,h)/2 * centerThreshold is kept in     *)
(*     two-hundredths, centerThreshold in hundredths;                      *)
(*   - the joystick's x, y (two decimals) are kept in hundredths.          *)
(* Callbacks are observed through cbs, the sequence of callbacks the last  *)
(* handler invoked, ev, the event that handler was given, and pre, what    *)
(* the handler found: whether its widget was pressed, whether the event    *)
(* before was a release, and whether the joystick's mapping gave the       *)
(* output again.  The joystick and the slider keep no contact identifier   *)
(* and the joystick keeps no output: capture is the pointer id handed to   *)
(* setPointerCapture, out the (x, y) last handed to a joystick callback;   *)
(* the dpad's lastPressed is the direction last handed to onPressCallback *)
(* since the last release ("none" if none was), its angle the angle        *)
(* onDpadMove last computed since the last release.                        *)
(* The arithmetic is that of the reals: the model does not carry the       *)
(* rounding errors of the doubles.                                         *)
(***************************************************************************)
EXTENDS Integers, Sequences, FiniteSets, TLC

VARIABLES page, layout, joystick, dpad, slider, button, ev, cbs, pre

vars == <<page, layout, joystick, dpad, slider, button, ev, cbs, pre>>

\* ------------------------------------------------------------------------
\* Bounds of the model
\* ------------------------------------------------------------------------

\* number of distinct contacts (pointer ids / touch identifiers) on the page
MaxContacts == 2

ContactIds == 1..MaxContacts

\* client coordinates an event may carry (both axes)
Coords == {0, 30, 60}

\* bounding rectangles the layout engine may report for a widget's base
RectA == [left |-> 0, top |-> 0, width |-> 60, height |-> 60]

RectB == [left |-> 4, top |-> 4, width |-> 60, height |-> 60]

Layouts == {RectA, RectB}

\* configurations the widgets are constructed with
Radii == {60}

Rotations == {0, 90}

Thresholds == {25}

Axes == {"vertical", "horizontal"}

Pages == {"joystick", "dpad", "slider", "button"}

\* baseRect before the first measurement (declared DOMRect | undefined)
Undefined == [undefined |-> TRUE]

\* the value of ev before any event was delivered
NoEvent == [target |-> "none", type |-> "none", id |-> 0, clientX |-> 0, clientY |-> 0]

Event(target, type, id, x, y) ==
  [target |-> target, type |-> type, id |-> id, clientX |-> x, clientY |-> y]

\* a Touch of a TouchEvent's lists
Touch(id, x, y) == [identifier |-> id, clientX |-> x, clientY |-> y]

\* a touchstart: (id, x, y) is e.touches[0], the first touch active on the
\* page, and changed is e.changedTouches[0], the touch that started
TouchStart(target, id, x, y, changed) ==
  [target |-> target, type |-> "touchstart", id |-> id,
   clientX |-> x, clientY |-> y, changed |-> changed]

\* the points a touch lands on while an earlier one is held on the page
LaterTouchPoints == {<<0, 30>>, <<60, 30>>}

\* the touches that may have started when touches[0] is Touch(id, x, y):
\* that touch itself, or a later one while it is held anywhere on the page
ChangedTouches(id, x, y) ==
  {Touch(id, x, y)}
    \cup {Touch(i, p[1], p[2]) : i \in ContactIds \ {id}, p \in LaterTouchPoints}

Call(name, args) == [name |-> name, args |-> args]

\* the event types each init() binds to its release handler
JoystickUpTypes == {"pointerup", "pointercancel"}

DpadUpTypes == {"pointerup", "touchend"}

SliderUpTypes == {"pointerup", "pointercancel"}

ButtonUpTypes == {"pointerup", "touchend", "mouseup", "mouseleave"}

\* event e ran its widget's release handler
IsRelease(e) ==
  \/ e.target = "joystick" /\ e.type \in JoystickUpTypes
  \/ e.target = "dpad" /\ e.type \in DpadUpTypes
  \/ e.target = "slider" /\ e.type \in SliderUpTypes
  \/ e.target = "button" /\ e.type \in ButtonUpTypes

\* what a handler finds: its widget's isPressed, whether the event before
\* ran the release handler, and (joystick only) whether the (x, y) it maps
\* the event to is the (x, y) last handed to a callback
FoundSame(isPressed, same) ==
  [isPressed |-> isPressed, released |-> IsRelease(ev), same |-> same]

Found(isPressed) == FoundSame(isPressed, FALSE)

\* ------------------------------------------------------------------------
\* Arithmetic helpers
\* ------------------------------------------------------------------------

Min(a, b) == IF a < b THEN a ELSE b

\* Math.round(n / d) for d > 0: the nearest integer, ties towards +infinity
MathRound(n, d) == (2 * n + d) \div (2 * d)

\* the sign of a * sqrt(s) - b for a > 0, b >= 0 and 0 <= s < 2^30: that of
\* a * a * s - b * b, computed from b = q * a + r without leaving 32 bits
CmpSqrt(a, s, b) ==
  LET q == b \div a
      r == b % a
      l == (s - q * q) * a * a
      h == 2 * q * r * a + r * r
  IN CASE q >= 32768 -> -1
       [] q < 32768 /\ s < q * q -> -1
       [] q < 32768 /\ s = q * q -> IF r = 0 THEN 0 ELSE -1
       [] q < 32768 /\ s >= (q + 1) * (q + 1) -> 1
       [] OTHER -> IF l < h THEN -1 ELSE IF l = h THEN 0 ELSE 1

\* a * sqrt(s) <= b, for s >= 0, decided on the squares (exact)
LeqSqrt(a, s, b) ==
  IF a <= 0
    THEN IF b >= 0 THEN TRUE
         ELSE IF a = 0 THEN FALSE ELSE CmpSqrt(-a, s, -b) >= 0
    ELSE IF b < 0 THEN FALSE ELSE CmpSqrt(a, s, b) <= 0

\* a * sqrt(s) < b
LtSqrt(a, s, b) == ~LeqSqrt(-a, s, -b)

\* the largest n in lo..hi with (2n - 1) * sqrt(s) <= 200 * u, by bisection
RECURSIVE RoundSearch(_, _, _, _)
RoundSearch(lo, hi, u, s) ==
  IF lo = hi THEN lo
  ELSE LET mid == (lo + hi + 1) \div 2
       IN IF LeqSqrt(2 * mid - 1, s, 200 * u)
            THEN RoundSearch(mid, hi, u, s)
            ELSE RoundSearch(lo, mid - 1, u, s)

\* Math.round(100 * u / sqrt(s)) for s > 0 and |u| <= sqrt(s): the n with
\* n - 1/2 <= 100 * u / sqrt(s) < n + 1/2
MathRoundSqrt(u, s) == RoundSearch(-100, 100, u, s)

\* a rotation by an odd multiple of 45 degrees
Diagonal(rotation) == rotation % 90 # 0

\* Math.cos and Math.sin of a multiple of 45 degrees; for an odd multiple
\* the value is the result times sqrt(2) / 2
CosDeg(a) ==
  CASE a % 360 \in {0, 45, 315} -> 1
    [] a % 360 \in {135, 180, 225} -> -1
    [] OTHER -> 0

SinDeg(a) ==
  CASE a % 360 \in {45, 90, 135} -> 1
    [] a % 360 \in {225, 270, 315} -> -1
    [] OTHER -> 0

\* the reverse rotation both widgets apply: (x, y) turned by -rotation
\* degrees; when Diagonal(rotation) the value is the result times sqrt(2) / 2
RotateX(x, y, rotation) == x * CosDeg(-rotation) - y * SinDeg(-rotation)

\* mutant of RotateY: (x, y) is turned by rotation, not by -rotation
RotateYForward(x, y, rotation) ==
  x * SinDeg(rotation) + y * CosDeg(rotation)

RotateY(x, y, rotation) == x * SinDeg(-rotation) + y * CosDeg(-rotation)

\* twice the offset of a client coordinate from the centre of a rectangle
OffsetX2(rect, clientX) == 2 * clientX - (2 * rect.left + rect.width)

OffsetY2(rect, clientY) == 2 * clientY - (2 * rect.top + rect.height)

\* ------------------------------------------------------------------------
\* Joystick (src/joystick/Joystick.ts)
\* ------------------------------------------------------------------------

\* offsetWidth of the thumb, rendered radius / 2.5 wide
ThumbOffsetWidth(radius) == (2 * radius) \div 5

\* thumbMaxDistance = (radius - offsetWidth) / 1.5, in thirds
ThumbMaxDistance(radius) == 2 * (radius - ThumbOffsetWidth(radius))

JoystickUpdateContainerRectangle(j) ==
  [j EXCEPT !.baseRect = layout,
            !.thumbMaxDistance = ThumbMaxDistance(j.radius)]

\* mutant of JoystickXY: y is not inverted, screen-down is positive
JoystickXYScreenY(j, e) ==
  LET x2 == OffsetX2(j.baseRect, e.clientX)
      y2 == OffsetY2(j.baseRect, e.clientY)
      s == x2 * x2 + y2 * y2
      clamped == 9 * s > 4 * j.thumbMaxDistance * j.thumbMaxDistance
      rx == IF j.rotation # 0 THEN RotateX(x2, y2, j.rotation) ELSE x2
      ry == IF j.rotation # 0 THEN RotateY(x2, y2, j.rotation) ELSE y2
      sr == IF Diagonal(j.rotation) THEN 2 * s ELSE s
  IN IF clamped
       THEN <<MathRoundSqrt(rx, sr), MathRoundSqrt(ry, sr)>>
       ELSE IF Diagonal(j.rotation)
         THEN <<MathRoundSqrt(3 * rx,
                              8 * j.thumbMaxDistance * j.thumbMaxDistance),
                MathRoundSqrt(3 * ry,
                              8 * j.thumbMaxDistance * j.thumbMaxDistance)>>
         ELSE <<MathRound(150 * rx, j.thumbMaxDistance),
                MathRound(150 * ry, j.thumbMaxDistance)>>

\* mutant of JoystickXY: each axis is clamped to thumbMaxDistance by itself
JoystickXYAxisClamped(j, e) ==
  LET x2 == OffsetX2(j.baseRect, e.clientX)
      y2 == OffsetY2(j.baseRect, e.clientY)
      rx == IF j.rotation # 0 THEN RotateX(x2, y2, j.rotation) ELSE x2
      ry == IF j.rotation # 0 THEN RotateY(x2, y2, j.rotation) ELSE y2
      Clamp(n) == IF n > 100 THEN 100 ELSE IF n < -100 THEN -100 ELSE n
  IN IF Diagonal(j.rotation)
       THEN <<MathRoundSqrt(3 * rx,
                            8 * j.thumbMaxDistance * j.thumbMaxDistance),
              MathRoundSqrt(3 * (-ry),
                            8 * j.thumbMaxDistance * j.thumbMaxDistance)>>
       ELSE <<Clamp(MathRound(150 * rx, j.thumbMaxDistance)),
              Clamp(MathRound(150 * (-ry), j.thumbMaxDistance))>>

\* mutant of JoystickXY: the offset is not clamped to thumbMaxDistance
JoystickXYUnclamped(j, e) ==
  LET x2 == OffsetX2(j.baseRect, e.clientX)
      y2 == OffsetY2(j.baseRect, e.clientY)
      rx == IF j.rotation # 0 THEN RotateX(x2, y2, j.rotation) ELSE x2
      ry == IF j.rotation # 0 THEN RotateY(x2, y2, j.rotation) ELSE y2
  IN IF Diagonal(j.rotation)
       THEN <<MathRoundSqrt(3 * rx,
                            8 * j.thumbMaxDistance * j.thumbMaxDistance),
              MathRoundSqrt(3 * (-ry),
                            8 * j.thumbMaxDistance * j.thumbMaxDistance)>>
       ELSE <<MathRound(150 * rx, j.thumbMaxDistance),
              MathRound(150 * (-ry), j.thumbMaxDistance)>>

\* the (x, y) onJoysickMove passes to the input callback, in hundredths
JoystickXY(j, e) ==
  LET x2 == OffsetX2(j.baseRect, e.clientX)
      y2 == OffsetY2(j.baseRect, e.clientY)
      s == x2 * x2 + y2 * y2
      clamped == 9 * s > 4 * j.thumbMaxDistance * j.thumbMaxDistance
      rx == IF j.rotation # 0 THEN RotateX(x2, y2, j.rotation) ELSE x2
      ry == IF j.rotation # 0 THEN RotateY(x2, y2, j.rotation) ELSE y2
      \* the square of the length of (rx, ry) as kept
      sr == IF Diagonal(j.rotation) THEN 2 * s ELSE s
  IN IF clamped
       THEN <<MathRoundSqrt(rx, sr), MathRoundSqrt(-ry, sr)>>
       ELSE IF Diagonal(j.rotation)
         \* 100 * (rx * sqrt(2) / 4) / (thumbMaxDistance / 3)
         THEN <<MathRoundSqrt(3 * rx,
                              8 * j.thumbMaxDistance * j.thumbMaxDistance),
                MathRoundSqrt(3 * (-ry),
                              8 * j.thumbMaxDistance * j.thumbMaxDistance)>>
         ELSE <<MathRound(150 * rx, j.thumbMaxDistance),
                MathRound(150 * (-ry), j.thumbMaxDistance)>>

\* onJoysickMove on joystick state j: the next state and the callbacks fired
JoystickMoveState(j, e) ==
  IF ~j.isPressed THEN j ELSE [j EXCEPT !.out = JoystickXY(j, e)]

\* mutant of JoystickMoveCalls: the isPressed guard is missing
JoystickMoveCallsUnguarded(j, e) ==
  <<Call("onInputCallback", JoystickXY(j, e))>>

\* mutant of JoystickMoveCalls: the input callback is gated on a change
JoystickMoveCallsGated(j, e) ==
  IF ~j.isPressed \/ JoystickXY(j, e) = j.out THEN <<>>
  ELSE <<Call("onInputCallback", JoystickXY(j, e))>>

JoystickMoveCalls(j, e) ==
  IF ~j.isPressed THEN <<>> ELSE <<Call("onInputCallback", JoystickXY(j, e))>>

onJoysickMove(id, x, y) ==
  /\ page = "joystick"
  /\ LET e == Event("joystick", "pointermove", id, x, y)
     IN /\ joystick' = JoystickMoveState(joystick, e)
        /\ cbs' = JoystickMoveCalls(joystick, e)
        /\ ev' = e
        /\ pre' = FoundSame(joystick.isPressed,
                            joystick.isPressed
                              /\ JoystickXY(joystick, e) = joystick.out)
  /\ UNCHANGED <<page, layout, dpad, slider, button>>

onJoysickDown(id, x, y) ==
  /\ page = "joystick"
  /\ LET e == Event("joystick", "pointerdown", id, x, y)
         j == JoystickUpdateContainerRectangle(
                [joystick EXCEPT !.isPressed = TRUE, !.capture = id])
     IN /\ joystick' = JoystickMoveState(j, e)
        /\ cbs' = JoystickMoveCalls(j, e)
        /\ ev' = e
        /\ pre' = FoundSame(joystick.isPressed,
                            JoystickXY(j, e) = joystick.out)
  /\ UNCHANGED <<page, layout, dpad, slider, button>>

\* mutant of onJoysickUp: the release callback is handed the last output
onJoysickUpLastOutput(type, id) ==
  /\ page = "joystick"
  /\ joystick' = [joystick EXCEPT !.isPressed = FALSE, !.out = <<0, 0>>]
  /\ cbs' = <<Call("onReleaseCallback", joystick.out)>>
  /\ ev' = Event("joystick", type, id, 0, 0)
  /\ pre' = Found(joystick.isPressed)
  /\ UNCHANGED <<page, layout, dpad, slider, button>>

\* mutant of onJoysickUp: returns early when the joystick is not pressed
onJoysickUpGuarded(type, id) ==
  /\ page = "joystick"
  /\ joystick' = [joystick EXCEPT !.isPressed = FALSE, !.out = <<0, 0>>]
  /\ cbs' = IF joystick.isPressed
              THEN <<Call("onReleaseCallback", <<0, 0>>)>>
              ELSE <<>>
  /\ ev' = Event("joystick", type, id, 0, 0)
  /\ pre' = Found(joystick.isPressed)
  /\ UNCHANGED <<page, layout, dpad, slider, button>>

\* pointerup and pointercancel are both bound to onJoysickUp
onJoysickUp(type, id) ==
  /\ page = "joystick"
  /\ joystick' = [joystick EXCEPT !.isPressed = FALSE, !.out = <<0, 0>>]
  /\ cbs' = <<Call("onReleaseCallback", <<0, 0>>)>>
  /\ ev' = Event("joystick", type, id, 0, 0)
  /\ pre' = Found(joystick.isPressed)
  /\ UNCHANGED <<page, layout, dpad, slider, button>>

\* the window's resize event is bound to updateContainerRectangle
JoystickResize ==
  /\ page = "joystick"
  /\ joystick' = JoystickUpdateContainerRectangle(joystick)
  /\ cbs' = <<>>
  /\ ev' = Event("joystick", "resize", 0, 0, 0)
  /\ pre' = Found(joystick.isPressed)
  /\ UNCHANGED <<page, layout, dpad, slider, button>>

JoystickInit(radius, rotation, rect) ==
  [radius |-> radius, rotation |-> rotation, isPressed |-> FALSE,
   baseRect |-> rect, thumbMaxDistance |-> ThumbMaxDistance(radius),
   capture |-> -1, out |-> <<0, 0>>]

\* ------------------------------------------------------------------------
\* Directional pad (src/joystick/Dpad.ts, DpadController)
\* ------------------------------------------------------------------------

\* for b > 0 and m in {1, 3, 5, 7}: the angle of (a, b) exceeds m * 22.5
\* degrees.  tan 22.5 = sqrt 2 - 1 and tan 67.5 = sqrt 2 + 1, so no vector
\* with integer coordinates lies on a boundary and the test is exact.
CrossGt(a, b, m) ==
  CASE m = 1 -> LtSqrt(a, 2, a + b)
    [] m = 3 -> LtSqrt(a, 2, b - a)
    [] m = 5 -> LtSqrt(a, 2, -a - b)
    [] m = 7 -> LtSqrt(a, 2, a - b)

\* (Math.atan2(b, a) * 180) / Math.PI > m * 22.5, for odd m in -7..7;
\* b = 0 stands for the -0 that -y is when y = 0, whose angle is -0 for
\* a >= 0 and -180 for a < 0
AngleGt(a, b, m) ==
  IF m > 0
    THEN b > 0 /\ CrossGt(a, b, m)
    ELSE \/ b > 0
         \/ b = 0 /\ a >= 0
         \/ b < 0 /\ ~CrossGt(a, -b, -m)

\* the values of onDpadMove's angle: Math.atan2(y, x) in degrees, kept as
\* its operands, and m * 22.5 degrees exactly, a value the double
\* arithmetic can give although the angle of no integer offset equals it
Atan2(y, x) == [y |-> y, x |-> x]

SectorBound(m) == [m |-> m]

\* angle > m * 22.5, for odd m in -7..7
AngleValueGt(angle, m) ==
  IF "m" \in DOMAIN angle THEN angle.m > m
  ELSE AngleGt(angle.x, angle.y, m)

\* mutant of DpadSectorOfAngle: every lower bound inclusive, every upper
\* bound exclusive
DpadSectorLowerInclusive(angle) ==
  LET Geq(m) == AngleValueGt(angle, m) \/ angle = SectorBound(m)
      Lt(m) == ~Geq(m)
  IN CASE Geq(-1) /\ Lt(1) -> "right"
       [] Geq(1) /\ Lt(3) -> "up-right"
       [] Geq(3) /\ Lt(5) -> "up"
       [] Geq(5) /\ Lt(7) -> "up-left"
       [] Geq(7) \/ Lt(-7) -> "left"
       [] Geq(-7) /\ Lt(-5) -> "down-left"
       [] Geq(-5) /\ Lt(-3) -> "down"
       [] Geq(-3) /\ Lt(-1) -> "down-right"
       [] OTHER -> "center"

\* mutant of DpadSectorOfAngle: left lacks its half below -157.5 degrees
DpadSectorLeftGap(angle) ==
  LET Gt(m) == AngleValueGt(angle, m)
      Leq(m) == ~AngleValueGt(angle, m)
  IN CASE Gt(-1) /\ Leq(1) -> "right"
       [] Gt(1) /\ Leq(3) -> "up-right"
       [] Gt(3) /\ Leq(5) -> "up"
       [] Gt(5) /\ Leq(7) -> "up-left"
       [] Gt(7) -> "left"
       [] Gt(-7) /\ Leq(-5) -> "down-left"
       [] Gt(-5) /\ Leq(-3) -> "down"
       [] Gt(-3) /\ Leq(-1) -> "down-right"
       [] OTHER -> "center"

\* the sector chain of onDpadMove
DpadSectorOfAngle(angle) ==
  LET Gt(m) == AngleValueGt(angle, m)
      Leq(m) == ~AngleValueGt(angle, m)
  IN CASE Gt(-1) /\ Leq(1) -> "right"
       [] Gt(1) /\ Leq(3) -> "up-right"
       [] Gt(3) /\ Leq(5) -> "up"
       [] Gt(5) /\ Leq(7) -> "up-left"
       [] Gt(7) \/ Leq(-7) -> "left"
       [] Gt(-7) /\ Leq(-5) -> "down-left"
       [] Gt(-5) /\ Leq(-3) -> "down"
       [] Gt(-3) /\ Leq(-1) -> "down-right"
       [] OTHER -> "center"

\* the sector of the rotated offset (x, y): the angle is atan2(-y, x)
DpadSector(x, y) == DpadSectorOfAngle(Atan2(-y, x))

\* mutant of DpadRotated: the dpad turns the offset by rotation, not by
\* -rotation
DpadRotatedForward(d, e) ==
  LET x2 == OffsetX2(d.baseRect, e.clientX)
      y2 == OffsetY2(d.baseRect, e.clientY)
  IN IF d.rotation # 0
       THEN <<RotateX(x2, y2, -d.rotation), RotateY(x2, y2, -d.rotation)>>
       ELSE <<x2, y2>>

\* onDpadMove's x and y after the reverse rotation, doubled (and, when
\* Diagonal(d.rotation), to be multiplied by sqrt(2) / 2)
DpadRotated(d, e) ==
  LET x2 == OffsetX2(d.baseRect, e.clientX)
      y2 == OffsetY2(d.baseRect, e.clientY)
  IN IF d.rotation # 0
       THEN <<RotateX(x2, y2, d.rotation), RotateY(x2, y2, d.rotation)>>
       ELSE <<x2, y2>>

\* the angle onDpadMove computes for event e
DpadAngle(d, e) ==
  LET r == DpadRotated(d, e) IN Atan2(-r[2], r[1])

\* mutant of DpadDirection: the dead zone excludes its rim
DpadDirectionOpenZone(d, e) ==
  LET r == DpadRotated(d, e)
      sr == IF Diagonal(d.rotation) THEN (r[1] * r[1] + r[2] * r[2]) \div 2
            ELSE r[1] * r[1] + r[2] * r[2]
  IN IF ~LtSqrt(100, sr, d.inputRegisterDistance)
       THEN DpadSectorOfAngle(DpadAngle(d, e))
       ELSE "center"

\* the direction onDpadMove computes for event e
DpadDirection(d, e) ==
  LET r == DpadRotated(d, e)
      rx == r[1]
      ry == r[2]
      \* x * x + y * y of the doubled offset
      sr == IF Diagonal(d.rotation) THEN (rx * rx + ry * ry) \div 2
            ELSE rx * rx + ry * ry
      \* centerDistance > inputRegisterDistance, both sides times 200
      outside == ~LeqSqrt(100, sr, d.inputRegisterDistance)
  IN IF outside THEN DpadSectorOfAngle(DpadAngle(d, e)) ELSE "center"

DpadUpdateContainerRectangle(d) ==
  [d EXCEPT !.baseRect = layout,
            !.inputRegisterDistance =
               Min(layout.width, layout.height) * d.centerThreshold]

\* onDpadMove on dpad state d: the next state and the callbacks fired
DpadMoveState(d, e) ==
  IF ~d.isPressed \/ d.baseRect = Undefined THEN d
  ELSE LET direction == DpadDirection(d, e)
       IN IF d.currentDirection # direction
            THEN [d EXCEPT !.angle = DpadAngle(d, e),
                           !.currentDirection = direction,
                           !.lastPressed = direction]
            ELSE [d EXCEPT !.angle = DpadAngle(d, e)]

\* mutant of DpadMoveCalls: the press callback is not gated on a change
DpadMoveCallsUngated(d, e) ==
  IF ~d.isPressed THEN <<>>
  ELSE IF d.baseRect = Undefined THEN <<Call("TypeError", <<>>)>>
  ELSE <<Call("onPressCallback", <<DpadDirection(d, e)>>)>>

\* mutant of DpadMoveCalls: a change to center is not reported
DpadMoveCallsSkipCenter(d, e) ==
  IF ~d.isPressed THEN <<>>
  ELSE IF d.baseRect = Undefined THEN <<Call("TypeError", <<>>)>>
  ELSE LET direction == DpadDirection(d, e)
       IN IF d.currentDirection # direction /\ direction # "center"
            THEN <<Call("onPressCallback", <<direction>>)>>
            ELSE <<>>

DpadMoveCalls(d, e) ==
  IF ~d.isPressed THEN <<>>
  ELSE IF d.baseRect = Undefined THEN <<Call("TypeError", <<>>)>>
  ELSE LET direction == DpadDirection(d, e)
       IN IF d.currentDirection # direction
            THEN <<Call("onPressCallback", <<direction>>)>>
            ELSE <<>>

onDpadMove(id, x, y) ==
  /\ page = "dpad"
  /\ LET e == Event("dpad", "pointermove", id, x, y)
     IN /\ dpad' = DpadMoveState(dpad, e)
        /\ cbs' = DpadMoveCalls(dpad, e)
        /\ ev' = e
        /\ pre' = Found(dpad.isPressed)
  /\ UNCHANGED <<page, layout, joystick, slider, button>>

\* mutant of onDpadDownPointer: the acquire does not measure the base
onDpadDownPointerUnmeasured(id, x, y) ==
  /\ page = "dpad"
  /\ LET e == Event("dpad", "pointerdown", id, x, y)
         d == [dpad EXCEPT !.isPressed = TRUE, !.pointerId = id]
     IN /\ dpad' = DpadMoveState(d, e)
        /\ cbs' = DpadMoveCalls(d, e)
        /\ ev' = e
        /\ pre' = Found(dpad.isPressed)
  /\ UNCHANGED <<page, layout, joystick, slider, button>>

\* pointerdown: the PointerEvent branch of onDpadDown
onDpadDownPointer(id, x, y) ==
  /\ page = "dpad"
  /\ LET e == Event("dpad", "pointerdown", id, x, y)
         d == DpadUpdateContainerRectangle(
                [dpad EXCEPT !.isPressed = TRUE, !.pointerId = id])
     IN /\ dpad' = DpadMoveState(d, e)
        /\ cbs' = DpadMoveCalls(d, e)
        /\ ev' = e
        /\ pre' = Found(dpad.isPressed)
  /\ UNCHANGED <<page, layout, joystick, slider, button>>

\* touchstart: the TouchEvent branch of onDpadDown; it reads e.touches[0],
\* the first touch active on the page, and never e.changedTouches
onDpadDownTouch(id, x, y, changed) ==
  /\ page = "dpad"
  /\ LET e == TouchStart("dpad", id, x, y, changed)
         d == DpadUpdateContainerRectangle(
                [dpad EXCEPT !.isPressed = TRUE, !.pointerId = id])
     IN /\ dpad' = DpadMoveState(d, e)
        /\ cbs' = DpadMoveCalls(d, e)
        /\ ev' = e
        /\ pre' = Found(dpad.isPressed)
  /\ UNCHANGED <<page, layout, joystick, slider, button>>

\* mutant of onDpadUp: returns early when the dpad is not pressed
onDpadUpGuarded(type, id) ==
  /\ page = "dpad"
  /\ dpad' = [dpad EXCEPT !.isPressed = FALSE, !.pointerId = -1,
                          !.angle = Undefined,
                          !.currentDirection = "center",
                          !.lastPressed = "none"]
  /\ cbs' = IF dpad.isPressed
              THEN <<Call("onReleaseCallback", <<"center">>)>>
              ELSE <<>>
  /\ ev' = Event("dpad", type, id, 0, 0)
  /\ pre' = Found(dpad.isPressed)
  /\ UNCHANGED <<page, layout, joystick, slider, button>>

\* mutant of onDpadUp: the release leaves currentDirection as it was
onDpadUpKeepsDirection(type, id) ==
  /\ page = "dpad"
  /\ dpad' = [dpad EXCEPT !.isPressed = FALSE, !.pointerId = -1,
                          !.angle = Undefined,
                          !.lastPressed = "none"]
  /\ cbs' = <<Call("onReleaseCallback", <<"center">>)>>
  /\ ev' = Event("dpad", type, id, 0, 0)
  /\ pre' = Found(dpad.isPressed)
  /\ UNCHANGED <<page, layout, joystick, slider, button>>

\* pointerup and touchend are both bound to onDpadUp
onDpadUp(type, id) ==
  /\ page = "dpad"
  /\ dpad' = [dpad EXCEPT !.isPressed = FALSE, !.pointerId = -1,
                          !.angle = Undefined,
                          !.currentDirection = "center",
                          !.lastPressed = "none"]
  /\ cbs' = <<Call("onReleaseCallback", <<"center">>)>>
  /\ ev' = Event("dpad", type, id, 0, 0)
  /\ pre' = Found(dpad.isPressed)
  /\ UNCHANGED <<page, layout, joystick, slider, button>>

\* init binds no listener to pointercancel or touchcancel
DpadCancel(type, id) ==
  /\ page = "dpad"
  /\ cbs' = <<>>
  /\ ev' = Event("dpad", type, id, 0, 0)
  /\ pre' = Found(dpad.isPressed)
  /\ UNCHANGED <<page, layout, joystick, dpad, slider, button>>

\* mutant of DpadRemeasure: the re-measure also puts the direction to rest
DpadRemeasureResets ==
  /\ page = "dpad"
  /\ dpad' = [DpadUpdateContainerRectangle(dpad)
                EXCEPT !.currentDirection = "center"]
  /\ cbs' = <<>>
  /\ ev' = Event("dpad", "remeasure", 0, 0, 0)
  /\ pre' = Found(dpad.isPressed)
  /\ UNCHANGED <<page, layout, joystick, slider, button>>

\* updateContainerRectangle called by the host; no event is bound to it
DpadRemeasure ==
  /\ page = "dpad"
  /\ dpad' = DpadUpdateContainerRectangle(dpad)
  /\ cbs' = <<>>
  /\ ev' = Event("dpad", "remeasure", 0, 0, 0)
  /\ pre' = Found(dpad.isPressed)
  /\ UNCHANGED <<page, layout, joystick, slider, button>>

DpadInit(rotation, centerThreshold) ==
  [rotation |-> rotation, centerThreshold |-> centerThreshold,
   isPressed |-> FALSE, pointerId |-> -1,
   baseRect |-> Undefined, inputRegisterDistance |-> 0,
   angle |-> Undefined,
   currentDirection |-> "center", lastPressed |-> "none"]

\* ------------------------------------------------------------------------
\* Retractable slider (src/joystick/Dpad.ts, RetrackableSlider)
\* ------------------------------------------------------------------------

SliderUpdateContainerRectangle(s) == [s EXCEPT !.baseRect = layout]

\* the not-a-number value of a slider: a number that is no percentage, on
\* which no arithmetic is done
NaN == -1

\* a !== b on numbers: NaN differs from every number, itself included
StrictNotEqual(a, b) == a = NaN \/ b = NaN \/ a # b

\* Math.round(Math.max(0, Math.min(100, value))) for value = n / d, d >= 0:
\* over d = 0 the value is 0 / 0 = NaN, which min, max and round hand on, or
\* an infinity of the sign of n, which is clamped
ClampRound(n, d) ==
  IF d = 0 /\ n = 0 THEN NaN
  ELSE IF n < 0 THEN 0 ELSE IF n > 100 * d THEN 100 ELSE MathRound(n, d)

\* mutant of SliderValue: the vertical axis is not inverted, the top is 0
SliderValueTopZero(direction, rect, e) ==
  IF direction = "vertical"
    THEN ClampRound(100 * (e.clientY - rect.top), rect.height)
    ELSE ClampRound(100 * (e.clientX - rect.left), rect.width)

\* mutant of SliderValue: each direction reads the other axis
SliderValueSwappedAxes(direction, rect, e) ==
  IF direction = "vertical"
    THEN ClampRound(100 * (e.clientX - rect.left), rect.width)
    ELSE ClampRound(100 * rect.height - 100 * (e.clientY - rect.top),
                    rect.height)

\* the value setSliderValue computes from event e against rectangle rect
SliderValue(direction, rect, e) ==
  IF direction = "vertical"
    THEN ClampRound(100 * rect.height - 100 * (e.clientY - rect.top),
                    rect.height)
    ELSE ClampRound(100 * (e.clientX - rect.left), rect.width)

\* setSliderValue on slider state s: the next state and the callbacks fired
SetSliderValueState(s, e) ==
  LET m == SliderUpdateContainerRectangle(s)
      value == SliderValue(m.direction, m.baseRect, e)
  IN IF StrictNotEqual(m.valuePercent, value)
       THEN [m EXCEPT !.valuePercent = value]
       ELSE m

\* mutant of SetSliderValueCalls: the slide callback is not gated on a change
SetSliderValueCallsUngated(s, e) ==
  LET m == SliderUpdateContainerRectangle(s)
  IN <<Call("onSlideCallback", <<SliderValue(m.direction, m.baseRect, e)>>)>>

SetSliderValueCalls(s, e) ==
  LET m == SliderUpdateContainerRectangle(s)
      value == SliderValue(m.direction, m.baseRect, e)
  IN IF StrictNotEqual(m.valuePercent, value)
       THEN <<Call("onSlideCallback", <<value>>)>>
       ELSE <<>>

onSliderMove(id, x, y) ==
  /\ page = "slider"
  /\ LET e == Event("slider", "pointermove", id, x, y)
     IN /\ slider' = IF ~slider.isPressed THEN slider
                     ELSE SetSliderValueState(slider, e)
        /\ cbs' = IF ~slider.isPressed THEN <<>>
                  ELSE SetSliderValueCalls(slider, e)
        /\ ev' = e
        /\ pre' = Found(slider.isPressed)
  /\ UNCHANGED <<page, layout, joystick, dpad, button>>

onSliderDown(id, x, y) ==
  /\ page = "slider"
  /\ LET e == Event("slider", "pointerdown", id, x, y)
         s == [slider EXCEPT !.isPressed = TRUE, !.capture = id]
     IN /\ slider' = SetSliderValueState(s, e)
        /\ cbs' = SetSliderValueCalls(s, e)
        /\ ev' = e
        /\ pre' = Found(slider.isPressed)
  /\ UNCHANGED <<page, layout, joystick, dpad, button>>

\* mutant of onSliderUp: the release leaves the value where it is
onSliderUpKeepsValue(type, id) ==
  /\ page = "slider"
  /\ slider' = [slider EXCEPT !.isPressed = FALSE]
  /\ cbs' = IF StrictNotEqual(slider.valuePercent, 0)
              THEN <<Call("onReleaseCallback", <<>>)>>
              ELSE <<>>
  /\ ev' = Event("slider", type, id, 0, 0)
  /\ pre' = Found(slider.isPressed)
  /\ UNCHANGED <<page, layout, joystick, dpad, button>>

\* mutant of onSliderUp: the release puts the axis back to its default
onSliderUpResetsAxis(type, id) ==
  /\ page = "slider"
  /\ slider' = [slider EXCEPT !.isPressed = FALSE, !.valuePercent = 0,
                              !.direction = "vertical"]
  /\ cbs' = IF StrictNotEqual(slider.valuePercent, 0)
              THEN <<Call("onReleaseCallback", <<>>)>>
              ELSE <<>>
  /\ ev' = Event("slider", type, id, 0, 0)
  /\ pre' = Found(slider.isPressed)
  /\ UNCHANGED <<page, layout, joystick, dpad, button>>

\* pointerup and pointercancel are both bound to onSliderUp
onSliderUp(type, id) ==
  /\ page = "slider"
  /\ slider' = [slider EXCEPT !.isPressed = FALSE, !.valuePercent = 0]
  /\ cbs' = IF StrictNotEqual(slider.valuePercent, 0)
              THEN <<Call("onReleaseCallback", <<>>)>>
              ELSE <<>>
  /\ ev' = Event("slider", type, id, 0, 0)
  /\ pre' = Found(slider.isPressed)
  /\ UNCHANGED <<page, layout, joystick, dpad, button>>

\* the window's resize event is bound to updateContainerRectangle
SliderResize ==
  /\ page = "slider"
  /\ slider' = SliderUpdateContainerRectangle(slider)
  /\ cbs' = <<>>
  /\ ev' = Event("slider", "resize", 0, 0, 0)
  /\ pre' = Found(slider.isPressed)
  /\ UNCHANGED <<page, layout, joystick, dpad, button>>

SliderInit(direction) ==
  [direction |-> direction, isPressed |-> FALSE, baseRect |-> Undefined,
   valuePercent |-> 0, capture |-> -1]

\* ------------------------------------------------------------------------
\* Button (src/joystick/Button.ts and the ButtonController of Dpad.ts)
\* ------------------------------------------------------------------------

\* event types bound to onButtonDown by the two init()s
ButtonDownTypes == {"pointerdown", "touchstart", "mousedown"}

\* mutant of onButtonDown: the isPressed guard is missing
onButtonDownUnguarded(type, id) ==
  /\ page = "button"
  /\ button' = [button EXCEPT !.isPressed = TRUE]
  /\ cbs' = <<Call("onPressCallback", <<>>)>>
  /\ ev' = Event("button", type, id, 0, 0)
  /\ pre' = Found(button.isPressed)
  /\ UNCHANGED <<page, layout, joystick, dpad, slider>>

\* onButtonDown on button state b: the next state and the callbacks fired
ButtonDownState(b) == IF b.isPressed THEN b ELSE [b EXCEPT !.isPressed = TRUE]

ButtonDownCalls(b) ==
  IF b.isPressed THEN <<>> ELSE <<Call("onPressCallback", <<>>)>>

\* onButtonUp on button state b: the next state and the callbacks fired
ButtonUpState(b) == IF ~b.isPressed THEN b ELSE [b EXCEPT !.isPressed = FALSE]

ButtonUpCalls(b) ==
  IF ~b.isPressed THEN <<>> ELSE <<Call("onReleaseCallback", <<>>)>>

onButtonDown(type, id) ==
  /\ page = "button"
  /\ button' = ButtonDownState(button)
  /\ cbs' = ButtonDownCalls(button)
  /\ ev' = Event("button", type, id, 0, 0)
  /\ pre' = Found(button.isPressed)
  /\ UNCHANGED <<page, layout, joystick, dpad, slider>>

onButtonUp(type, id) ==
  /\ page = "button"
  /\ button' = ButtonUpState(button)
  /\ cbs' = ButtonUpCalls(button)
  /\ ev' = Event("button", type, id, 0, 0)
  /\ pre' = Found(button.isPressed)
  /\ UNCHANGED <<page, layout, joystick, dpad, slider>>

\* touchcancel: Button.ts only prevents its default, Dpad.ts binds nothing;
\* pointercancel is bound by neither
ButtonCancel(type, id) ==
  /\ page = "button"
  /\ cbs' = <<>>
  /\ ev' = Event("button", type, id, 0, 0)
  /\ pre' = Found(button.isPressed)
  /\ UNCHANGED <<page, layout, joystick, dpad, slider, button>>

ButtonInit == [isPressed |-> FALSE]

\* ------------------------------------------------------------------------
\* The page: one widget under the user's contacts, and the layout engine
\* ------------------------------------------------------------------------

\* the layout engine moves the widgets (scroll, resize, reflow)
LayoutChange(rect) ==
  /\ layout # rect
  /\ layout' = rect
  /\ cbs' = <<>>
  /\ ev' = Event("window", "layout", 0, 0, 0)
  /\ pre' = Found(FALSE)
  /\ UNCHANGED <<page, joystick, dpad, slider, button>>

Init ==
  /\ page \in Pages
  /\ layout \in Layouts
  /\ \E radius \in Radii :
       \E rotation \in (IF page = "joystick" THEN Rotations ELSE {0}) :
         joystick = JoystickInit(radius, rotation, layout)
  /\ \E rotation \in (IF page = "dpad" THEN Rotations ELSE {0}) :
       \E centerThreshold \in Thresholds :
         dpad = DpadInit(rotation, centerThreshold)
  /\ \E direction \in (IF page = "slider" THEN Axes ELSE {"vertical"}) :
       slider = SliderInit(direction)
  /\ button = ButtonInit
  /\ ev = NoEvent
  /\ pre = [isPressed |-> FALSE, released |-> FALSE, same |-> FALSE]
  /\ cbs = <<>>

JoystickNext ==
  \/ \E id \in ContactIds : \E x \in Coords : \E y \in Coords :
       onJoysickDown(id, x, y)
  \/ \E id \in ContactIds : \E x \in Coords : \E y \in Coords :
       onJoysickMove(id, x, y)
  \/ \E type \in JoystickUpTypes : \E id \in ContactIds :
       onJoysickUp(type, id)
  \/ JoystickResize

DpadNext ==
  \/ \E id \in ContactIds : \E x \in Coords : \E y \in Coords :
       onDpadDownPointer(id, x, y)
  \/ \E id \in ContactIds : \E x \in Coords : \E y \in Coords :
       \E changed \in ChangedTouches(id, x, y) :
         onDpadDownTouch(id, x, y, changed)
  \/ \E id \in ContactIds : \E x \in Coords : \E y \in Coords :
       onDpadMove(id, x, y)
  \/ \E type \in DpadUpTypes : \E id \in ContactIds : onDpadUp(type, id)
  \/ \E id \in ContactIds : DpadCancel("pointercancel", id)
  \/ DpadRemeasure

SliderNext ==
  \/ \E id \in ContactIds : \E x \in Coords : \E y \in Coords :
       onSliderDown(id, x, y)
  \/ \E id \in ContactIds : \E x \in Coords : \E y \in Coords :
       onSliderMove(id, x, y)
  \/ \E type \in SliderUpTypes : \E id \in ContactIds :
       onSliderUp(type, id)
  \/ SliderResize

ButtonNext ==
  \/ \E type \in ButtonDownTypes : \E id \in ContactIds :
       onButtonDown(type, id)
  \/ \E type \in ButtonUpTypes : \E id \in ContactIds : onButtonUp(type, id)
  \/ \E id \in ContactIds : ButtonCancel("touchcancel", id)

Next ==
  \/ JoystickNext
  \/ DpadNext
  \/ SliderNext
  \/ ButtonNext
  \/ \E rect \in Layouts : LayoutChange(rect)

Spec == Init /\ [][Next]_vars

\* ------------------------------------------------------------------------
\* The mappings on a finer grid: one contact, one gesture at a time, a
\* layout that stays, and every rotation of the five the widgets are
\* shown with
\* ------------------------------------------------------------------------

\* offsets from the centre of GeoRect: the thumb's travel of 50 and the
\* dpad's register distance of 15 are among them, as are 9 and 12, the
\* legs of a triangle of hypotenuse 15
GeoOffsets == {-60, -50, -16, -15, -12, -10, -9, 0, 9, 12, 15, 16, 50, 60}

GeoCoords == {60 + d : d \in GeoOffsets}

\* the coordinates a move of the gesture goes to
GeoMoves == {10, 60, 110}

GeoRect == [left |-> 10, top |-> 10, width |-> 100, height |-> 100]

GeoSliderRect == [left |-> 10, top |-> 10, width |-> 40, height |-> 40]

\* radius 125 renders a thumb 50 wide: thumbMaxDistance is 75 / 1.5 = 50
GeoRadii == {125}

GeoRotations == {0, 45, 90, 180, -90}

\* centerThreshold 0.3 of a base 100 wide: inputRegisterDistance is 15
GeoThresholds == {30}

GeoInit ==
  /\ page \in Pages \ {"button"}
  /\ layout = IF page = "slider" THEN GeoSliderRect ELSE GeoRect
  /\ \E radius \in GeoRadii :
       \E rotation \in (IF page = "joystick" THEN GeoRotations ELSE {0}) :
         joystick = JoystickInit(radius, rotation, layout)
  /\ \E rotation \in (IF page = "dpad" THEN GeoRotations ELSE {0}) :
       \E centerThreshold \in GeoThresholds :
         dpad = DpadInit(rotation, centerThreshold)
  /\ \E direction \in (IF page = "slider" THEN Axes ELSE {"vertical"}) :
       slider = SliderInit(direction)
  /\ button = ButtonInit
  /\ ev = NoEvent
  /\ pre = [isPressed |-> FALSE, released |-> FALSE, same |-> FALSE]
  /\ cbs = <<>>

GeoJoystickNext ==
  \/ \E x \in GeoCoords : \E y \in GeoCoords :
       ~joystick.isPressed /\ onJoysickDown(1, x, y)
  \/ \E x \in GeoMoves : \E y \in GeoMoves :
       joystick.isPressed /\ onJoysickMove(1, x, y)
  \/ joystick.isPressed /\ onJoysickUp("pointerup", 1)

GeoDpadNext ==
  \/ \E x \in GeoCoords : \E y \in GeoCoords :
       ~dpad.isPressed /\ onDpadDownPointer(1, x, y)
  \/ \E x \in GeoMoves : \E y \in GeoMoves :
       dpad.isPressed /\ onDpadMove(1, x, y)
  \/ dpad.isPressed /\ onDpadUp("pointerup", 1)

GeoSliderNext ==
  \/ \E x \in GeoCoords : \E y \in GeoCoords :
       ~slider.isPressed /\ onSliderDown(1, x, y)
  \/ \E x \in GeoMoves : \E y \in GeoMoves :
       slider.isPressed /\ onSliderMove(1, x, y)
  \/ slider.isPressed /\ onSliderUp("pointerup", 1)

GeoNext ==
  \/ GeoJoystickNext
  \/ GeoDpadNext
  \/ GeoSliderNext

GeometrySpec == GeoInit /\ [][GeoNext]_vars

\* ------------------------------------------------------------------------
\* The slider over a base that collapses while it is held: the base has the
\* size its options and its container give it, getBoundingClientRect is
\* called anew by every setSliderValue, and the captured pointer keeps
\* delivering moves to a base of no area
\* ------------------------------------------------------------------------

\* the rectangle of a base of width and height 0
ZeroRect == [left |-> 10, top |-> 10, width |-> 0, height |-> 0]

CollapseRects == {GeoSliderRect, ZeroRect}

CollapseInit ==
  /\ page = "slider"
  /\ layout = GeoSliderRect
  /\ \E radius \in GeoRadii : joystick = JoystickInit(radius, 0, layout)
  /\ \E centerThreshold \in GeoThresholds :
       dpad = DpadInit(0, centerThreshold)
  /\ \E direction \in Axes : slider = SliderInit(direction)
  /\ button = ButtonInit
  /\ ev = NoEvent
  /\ pre = [isPressed |-> FALSE, released |-> FALSE, same |-> FALSE]
  /\ cbs = <<>>

\* a pointer lands only on a base that has an area
CollapseNext ==
  \/ \E x \in GeoCoords : \E y \in GeoCoords :
       ~slider.isPressed /\ layout # ZeroRect /\ onSliderDown(1, x, y)
  \/ \E x \in GeoMoves : \E y \in GeoMoves :
       slider.isPressed /\ onSliderMove(1, x, y)
  \/ slider.isPressed /\ onSliderUp("pointerup", 1)
  \/ \E rect \in CollapseRects : LayoutChange(rect)

CollapseSpec == CollapseInit /\ [][CollapseNext]_vars

\* ------------------------------------------------------------------------
\* A joystick and a button of Button.ts mounted in one container.  The
\* button's init binds onButtonDown and onButtonUp to pointerdown and
\* pointerup of this.container, not of its own base; the joystick's
\* handlers stop no propagation, so the pointerdown and the pointerup
\* dispatched to the joystick's base (captured or not) bubble to the
\* container and run the button's handlers after the joystick's.  cbs
\* holds the callbacks of one dispatch in the order of the listeners.
\* ------------------------------------------------------------------------

ContainerInit ==
  /\ page = "container"
  /\ layout \in Layouts
  /\ \E radius \in Radii : joystick = JoystickInit(radius, 0, layout)
  /\ \E centerThreshold \in Thresholds : dpad = DpadInit(0, centerThreshold)
  /\ slider = SliderInit("vertical")
  /\ button = ButtonInit
  /\ ev = NoEvent
  /\ pre = [isPressed |-> FALSE, released |-> FALSE, same |-> FALSE]
  /\ cbs = <<>>

\* pointerdown on the joystick's base
JoystickPointerDown(id, x, y) ==
  /\ page = "container"
  /\ LET e == Event("joystick", "pointerdown", id, x, y)
         j == JoystickUpdateContainerRectangle(
                [joystick EXCEPT !.isPressed = TRUE, !.capture = id])
     IN /\ joystick' = JoystickMoveState(j, e)
        /\ button' = ButtonDownState(button)
        /\ cbs' = JoystickMoveCalls(j, e) \o ButtonDownCalls(button)
        /\ ev' = e
        /\ pre' = FoundSame(joystick.isPressed,
                            JoystickXY(j, e) = joystick.out)
  /\ UNCHANGED <<page, layout, dpad, slider>>

\* pointermove on the joystick's base: the container has no listener for it
JoystickPointerMove(id, x, y) ==
  /\ page = "container"
  /\ LET e == Event("joystick", "pointermove", id, x, y)
     IN /\ joystick' = JoystickMoveState(joystick, e)
        /\ cbs' = JoystickMoveCalls(joystick, e)
        /\ ev' = e
        /\ pre' = FoundSame(joystick.isPressed,
                            joystick.isPressed
                              /\ JoystickXY(joystick, e) = joystick.out)
  /\ UNCHANGED <<page, layout, dpad, slider, button>>

\* pointerup or pointercancel on the joystick's base: the container
\* listens to pointerup only
JoystickPointerUp(type, id) ==
  /\ page = "container"
  /\ joystick' = [joystick EXCEPT !.isPressed = FALSE, !.out = <<0, 0>>]
  /\ button' = IF type = "pointerup" THEN ButtonUpState(button) ELSE button
  /\ cbs' = <<Call("onReleaseCallback", <<0, 0>>)>>
              \o (IF type = "pointerup" THEN ButtonUpCalls(button) ELSE <<>>)
  /\ ev' = Event("joystick", type, id, 0, 0)
  /\ pre' = Found(joystick.isPressed)
  /\ UNCHANGED <<page, layout, dpad, slider>>

\* pointerdown on the button's base
ButtonPointerDown(id) ==
  /\ page = "container"
  /\ button' = ButtonDownState(button)
  /\ cbs' = ButtonDownCalls(button)
  /\ ev' = Event("button", "pointerdown", id, 0, 0)
  /\ pre' = Found(button.isPressed)
  /\ UNCHANGED <<page, layout, joystick, dpad, slider>>

\* pointerup on the button's base
ButtonPointerUp(id) ==
  /\ page = "container"
  /\ button' = ButtonUpState(button)
  /\ cbs' = ButtonUpCalls(button)
  /\ ev' = Event("button", "pointerup", id, 0, 0)
  /\ pre' = Found(button.isPressed)
  /\ UNCHANGED <<page, layout, joystick, dpad, slider>>

ContainerNext ==
  \/ \E id \in ContactIds : \E x \in Coords : \E y \in Coords :
       JoystickPointerDown(id, x, y)
  \/ \E id \in ContactIds : \E x \in Coords : \E y \in Coords :
       JoystickPointerMove(id, x, y)
  \/ \E type \in JoystickUpTypes : \E id \in ContactIds :
       JoystickPointerUp(type, id)
  \/ \E id \in ContactIds : ButtonPointerDown(id)
  \/ \E id \in ContactIds : ButtonPointerUp(id)

ContainerSpec == ContainerInit /\ [][ContainerNext]_vars

\* ------------------------------------------------------------------------
\* Construction.  Every constructor takes options.container || document.body
\* as its container, and init() throws if that is falsy, before it renders
\* the base into the container and binds the listeners.  page is
\* "unconstructed" until a constructor has returned; from then on the
\* widget is mounted and its handlers are those of Next.
\* ------------------------------------------------------------------------

\* options.container: left out, null (a querySelector that found nothing)
\* or an element; document.body: null while the document has no body yet
ContainerOptions == {"absent", "null", "element"}

Bodies == {"null", "element"}

\* mutant of MountTarget: there is no default for the container
MountTargetNoDefault(container, body) ==
  IF container = "element" THEN "container" ELSE "null"

\* options.container || document.body
MountTarget(container, body) ==
  IF container = "element" THEN "container"
  ELSE IF body = "element" THEN "body" ELSE "null"

ConstructEvent(widget, container, body) ==
  [target |-> widget, type |-> "construct", id |-> 0, clientX |-> 0,
   clientY |-> 0, container |-> container, body |-> body]

ConstructInit ==
  /\ page = "unconstructed"
  /\ layout \in Layouts
  /\ \E radius \in Radii : joystick = JoystickInit(radius, 0, layout)
  /\ \E centerThreshold \in Thresholds : dpad = DpadInit(0, centerThreshold)
  /\ slider = SliderInit("vertical")
  /\ button = ButtonInit
  /\ ev = NoEvent
  /\ pre = [isPressed |-> FALSE, released |-> FALSE, same |-> FALSE]
  /\ cbs = <<>>

\* new JoystickController / DpadController / RetrackableSlider /
\* ButtonController(options): constructor and init()
Construct(widget, container, body) ==
  /\ page = "unconstructed"
  /\ ev' = ConstructEvent(widget, container, body)
  /\ pre' = Found(FALSE)
  /\ IF MountTarget(container, body) = "null"
       THEN /\ cbs' = <<Call("Error", <<"Container not found!">>)>>
            /\ UNCHANGED <<page, joystick, dpad, slider, button>>
       ELSE /\ cbs' = <<>>
            /\ page' = widget
            /\ \E radius \in Radii :
                 \E rotation \in
                     (IF widget = "joystick" THEN Rotations ELSE {0}) :
                   joystick' = JoystickInit(radius, rotation, layout)
            /\ \E rotation \in (IF widget = "dpad" THEN Rotations ELSE {0}) :
                 \E centerThreshold \in Thresholds :
                   dpad' = DpadInit(rotation, centerThreshold)
            /\ \E direction \in
                   (IF widget = "slider" THEN Axes ELSE {"vertical"}) :
                 slider' = SliderInit(direction)
            /\ button' = ButtonInit
  /\ UNCHANGED layout

ConstructNext ==
  \/ \E widget \in Pages : \E container \in ContainerOptions :
       \E body \in Bodies : Construct(widget, container, body)
  \/ Next

ConstructSpec == ConstructInit /\ [][ConstructNext]_vars

\* ------------------------------------------------------------------------
\* A joystick and a dpad of the same rotation given the same gesture at the
\* same offset from the centre of their bases: each contact event runs the
\* handler of both, the joystick's first
\* ------------------------------------------------------------------------

\* the coordinates of the grid, and that of the offset -36: under a rotation
\* of 45 degrees the offset (-36, -15) lies 0.12 degrees from the boundary
\* between left and down-left
PairCoords == GeoCoords \cup {24}

PairInit ==
  /\ page = "pair"
  /\ layout = GeoRect
  /\ \E rotation \in GeoRotations :
       /\ \E radius \in GeoRadii :
            joystick = JoystickInit(radius, rotation, layout)
       /\ \E centerThreshold \in GeoThresholds :
            dpad = DpadInit(rotation, centerThreshold)
  /\ slider = SliderInit("vertical")
  /\ button = ButtonInit
  /\ ev = NoEvent
  /\ pre = [isPressed |-> FALSE, released |-> FALSE, same |-> FALSE]
  /\ cbs = <<>>

\* pointerdown: onJoysickDown and the PointerEvent branch of onDpadDown
PairDown(x, y) ==
  /\ page = "pair"
  /\ ~joystick.isPressed
  /\ LET e == Event("pair", "pointerdown", 1, x, y)
         j == JoystickUpdateContainerRectangle(
                [joystick EXCEPT !.isPressed = TRUE, !.capture = 1])
         d == DpadUpdateContainerRectangle(
                [dpad EXCEPT !.isPressed = TRUE, !.pointerId = 1])
     IN /\ joystick' = JoystickMoveState(j, e)
        /\ dpad' = DpadMoveState(d, e)
        /\ cbs' = JoystickMoveCalls(j, e) \o DpadMoveCalls(d, e)
        /\ ev' = e
        /\ pre' = Found(joystick.isPressed)
  /\ UNCHANGED <<page, layout, slider, button>>

\* pointermove: onJoysickMove and onDpadMove
PairMove(x, y) ==
  /\ page = "pair"
  /\ joystick.isPressed
  /\ LET e == Event("pair", "pointermove", 1, x, y)
     IN /\ joystick' = JoystickMoveState(joystick, e)
        /\ dpad' = DpadMoveState(dpad, e)
        /\ cbs' = JoystickMoveCalls(joystick, e) \o DpadMoveCalls(dpad, e)
        /\ ev' = e
        /\ pre' = Found(joystick.isPressed)
  /\ UNCHANGED <<page, layout, slider, button>>

\* pointerup: onJoysickUp and onDpadUp
PairUp ==
  /\ page = "pair"
  /\ joystick.isPressed
  /\ joystick' = [joystick EXCEPT !.isPressed = FALSE, !.out = <<0, 0>>]
  /\ dpad' = [dpad EXCEPT !.isPressed = FALSE, !.pointerId = -1,
                          !.angle = Undefined,
                          !.currentDirection = "center",
                          !.lastPressed = "none"]
  /\ cbs' = <<Call("onReleaseCallback", <<0, 0>>),
              Call("onReleaseCallback", <<"center">>)>>
  /\ ev' = Event("pair", "pointerup", 1, 0, 0)
  /\ pre' = Found(joystick.isPressed)
  /\ UNCHANGED <<page, layout, slider, button>>

PairNext ==
  \/ \E x \in PairCoords : \E y \in PairCoords : PairDown(x, y)
  \/ \E x \in GeoMoves : \E y \in GeoMoves : PairMove(x, y)
  \/ PairUp

PairSpec == PairInit /\ [][PairNext]_vars

\* ------------------------------------------------------------------------
\* One physical contact at a time on the dpad, delivered by the platform as
\* pointer events, as touch events, or as both: init binds pointerdown,
\* pointermove and pointerup as well as touchstart and touchend, so a touch
\* contact on a platform with both event families runs onDpadDown and
\* onDpadUp once per family.
Deliveries == {"pointer", "touch", "pointer and touch"}

ContactInit ==
  /\ page \in Deliveries
  /\ layout = RectA
  /\ joystick = JoystickInit(CHOOSE radius \in Radii : TRUE, 0, layout)
  /\ \E rotation \in Rotations : \E centerThreshold \in Thresholds :
       dpad = DpadInit(rotation, centerThreshold)
  /\ slider = SliderInit("vertical")
  /\ button = ButtonInit
  /\ ev = NoEvent
  /\ pre = [isPressed |-> FALSE, released |-> FALSE, same |-> FALSE]
  /\ cbs = <<>>

\* no contact is on the dpad: the last event ended the last contact
ContactIdle ==
  \/ ev = NoEvent
  \/ page = "pointer" /\ ev.type = "pointerup"
  \/ page # "pointer" /\ ev.type = "touchend"

\* the contact is down and all events of its press have been delivered
ContactHeld ==
  \/ ev.type = "pointermove"
  \/ page = "pointer" /\ ev.type = "pointerdown"
  \/ page = "pointer and touch" /\ ev.type = "touchstart"

\* pointerdown of a new contact: the PointerEvent branch of onDpadDown
ContactPointerDown(id, x, y) ==
  /\ page # "touch"
  /\ ContactIdle
  /\ LET e == Event("dpad", "pointerdown", id, x, y)
         d == DpadUpdateContainerRectangle(
                [dpad EXCEPT !.isPressed = TRUE, !.pointerId = id])
     IN /\ dpad' = DpadMoveState(d, e)
        /\ cbs' = DpadMoveCalls(d, e)
        /\ ev' = e
        /\ pre' = Found(dpad.isPressed)
  /\ UNCHANGED <<page, layout, joystick, slider, button>>

\* touchstart of the contact, after its pointerdown where both families are
\* delivered: the TouchEvent branch of onDpadDown
ContactTouchStart(id, x, y) ==
  /\ \/ page = "touch" /\ ContactIdle
     \/ /\ page = "pointer and touch"
        /\ ev.type = "pointerdown"
        /\ id = ev.id /\ x = ev.clientX /\ y = ev.clientY
  /\ LET e == TouchStart("dpad", id, x, y, Touch(id, x, y))
         d == DpadUpdateContainerRectangle(
                [dpad EXCEPT !.isPressed = TRUE, !.pointerId = id])
     IN /\ dpad' = DpadMoveState(d, e)
        /\ cbs' = DpadMoveCalls(d, e)
        /\ ev' = e
        /\ pre' = Found(dpad.isPressed)
  /\ UNCHANGED <<page, layout, joystick, slider, button>>

\* pointermove of the contact: onDpadMove (touchmove is not bound)
ContactPointerMove(x, y) ==
  /\ page # "touch"
  /\ ContactHeld
  /\ LET e == Event("dpad", "pointermove", ev.id, x, y)
     IN /\ dpad' = DpadMoveState(dpad, e)
        /\ cbs' = DpadMoveCalls(dpad, e)
        /\ ev' = e
        /\ pre' = Found(dpad.isPressed)
  /\ UNCHANGED <<page, layout, joystick, slider, button>>

\* the lift of the contact as a pointerup: onDpadUp
ContactPointerUp ==
  /\ page # "touch"
  /\ ContactHeld
  /\ dpad' = [dpad EXCEPT !.isPressed = FALSE, !.pointerId = -1,
                          !.angle = Undefined,
                          !.currentDirection = "center",
                          !.lastPressed = "none"]
  /\ cbs' = <<Call("onReleaseCallback", <<"center">>)>>
  /\ ev' = Event("dpad", "pointerup", ev.id, 0, 0)
  /\ pre' = Found(dpad.isPressed)
  /\ UNCHANGED <<page, layout, joystick, slider, button>>

\* the lift of the contact as a touchend, after its pointerup where both
\* families are delivered: onDpadUp
ContactTouchEnd ==
  /\ \/ page = "touch" /\ ev.type = "touchstart"
     \/ page = "pointer and touch" /\ ev.type = "pointerup"
  /\ dpad' = [dpad EXCEPT !.isPressed = FALSE, !.pointerId = -1,
                          !.angle = Undefined,
                          !.currentDirection = "center",
                          !.lastPressed = "none"]
  /\ cbs' = <<Call("onReleaseCallback", <<"center">>)>>
  /\ ev' = Event("dpad", "touchend", ev.id, 0, 0)
  /\ pre' = Found(dpad.isPressed)
  /\ UNCHANGED <<page, layout, joystick, slider, button>>

ContactNext ==
  \/ \E id \in ContactIds : \E x \in Coords : \E y \in Coords :
       ContactPointerDown(id, x, y)
  \/ \E id \in ContactIds : \E x \in Coords : \E y \in Coords :
       ContactTouchStart(id, x, y)
  \/ \E x \in Coords : \E y \in Coords : ContactPointerMove(x, y)
  \/ ContactPointerUp
  \/ ContactTouchEnd

ContactSpec == ContactInit /\ [][ContactNext]_vars

\* ------------------------------------------------------------------------
\* The dpad constructed from its options, then driven through gestures:
\* the constructor's choice of centerThreshold from
\* options.centerRadiusThreshold, in hundredths.
DefaultCenterThreshold == 25

\* the options records: centerRadiusThreshold left out, 0, or 0.3
DpadOptions ==
  {[uid |-> "dpad"],
   [uid |-> "dpad", centerRadiusThreshold |-> 0],
   [uid |-> "dpad", centerRadiusThreshold |-> 30]}

\* mutant of CenterThreshold: options.centerRadiusThreshold || 0.25
CenterThresholdOrDefault(options) ==
  IF "centerRadiusThreshold" \notin DOMAIN options
    THEN DefaultCenterThreshold
    ELSE IF options.centerRadiusThreshold = 0
           THEN DefaultCenterThreshold
           ELSE options.centerRadiusThreshold

\* options.centerRadiusThreshold == undefined ? 0.25 : the option
CenterThreshold(options) ==
  IF "centerRadiusThreshold" \notin DOMAIN options
    THEN DefaultCenterThreshold
    ELSE options.centerRadiusThreshold

DpadConstructEvent(options) ==
  [target |-> "dpad", type |-> "construct", id |-> 0, clientX |-> 0,
   clientY |-> 0, options |-> options]

ThresholdRotations == {0, 45}

ThresholdInit ==
  /\ page = "unconstructed"
  /\ layout = GeoRect
  /\ \E radius \in GeoRadii : joystick = JoystickInit(radius, 0, layout)
  /\ dpad = DpadInit(0, DefaultCenterThreshold)
  /\ slider = SliderInit("vertical")
  /\ button = ButtonInit
  /\ ev = NoEvent
  /\ pre = [isPressed |-> FALSE, released |-> FALSE, same |-> FALSE]
  /\ cbs = <<>>

\* new DpadController(options)
DpadConstruct(options, rotation) ==
  /\ page = "unconstructed"
  /\ page' = "dpad"
  /\ dpad' = DpadInit(rotation, CenterThreshold(options))
  /\ cbs' = <<>>
  /\ ev' = DpadConstructEvent(options)
  /\ pre' = Found(FALSE)
  /\ UNCHANGED <<layout, joystick, slider, button>>

ThresholdNext ==
  \/ \E options \in DpadOptions : \E rotation \in ThresholdRotations :
       DpadConstruct(options, rotation)
  \/ GeoDpadNext

ThresholdSpec == ThresholdInit /\ [][ThresholdNext]_vars

\* ------------------------------------------------------------------------
\* The sector chain of onDpadMove as a function of the angle
\* ------------------------------------------------------------------------

\* the m of the eight sector boundaries m * 22.5 degrees
BoundaryIndex == {-7, -5, -3, -1, 1, 3, 5, 7}

\* the angles the chain is entered with: the eight boundaries, and
\* atan2(-y, x) of the offsets (x, y) of the grid
AngleInputs ==
  {SectorBound(m) : m \in BoundaryIndex}
    \cup {Atan2(-y, x) : x \in GeoOffsets, y \in GeoOffsets}

\* onDpadMove from the point where the angle is known and centerDistance
\* exceeds inputRegisterDistance: the chain, the state change, the callback
DpadClassify ==
  /\ page = "dpad"
  /\ dpad.isPressed
  /\ dpad.lastPressed = "none"
  /\ LET direction == DpadSectorOfAngle(dpad.angle)
     IN /\ dpad' = [dpad EXCEPT !.currentDirection = direction,
                                !.lastPressed = direction]
        /\ cbs' = <<Call("onPressCallback", <<direction>>)>>
  /\ UNCHANGED <<page, layout, joystick, slider, button, ev, pre>>

AngleInit ==
  /\ page = "dpad"
  /\ layout = GeoRect
  /\ \E radius \in GeoRadii : joystick = JoystickInit(radius, 0, layout)
  /\ \E centerThreshold \in GeoThresholds : \E angle \in AngleInputs :
       dpad = [DpadUpdateContainerRectangle(DpadInit(0, centerThreshold))
                 EXCEPT !.isPressed = TRUE, !.pointerId = 1,
                        !.angle = angle]
  /\ slider = SliderInit("vertical")
  /\ button = ButtonInit
  /\ ev = NoEvent
  /\ pre = [isPressed |-> FALSE, released |-> FALSE, same |-> FALSE]
  /\ cbs = <<>>

AngleNext == DpadClassify

AngleSpec == AngleInit /\ [][AngleNext]_vars

\* ------------------------------------------------------------------------
\* Vocabulary of the properties
\* ------------------------------------------------------------------------

TypeOK ==
  /\ page \in Pages
  /\ layout \in Layouts
  /\ joystick.isPressed \in BOOLEAN
  /\ dpad.isPressed \in BOOLEAN
  /\ slider.isPressed \in BOOLEAN
  /\ button.isPressed \in BOOLEAN
  /\ Len(cbs) <= 1

\* the widgets that track a contact's position
Trackers == {"joystick", "dpad", "slider"}

\* the record of the widget an event is delivered to
Widget(target) ==
  CASE target = "joystick" -> joystick
    [] target = "dpad" -> dpad
    [] target = "slider" -> slider
    [] target = "button" -> button
    [] OTHER -> [isPressed |-> FALSE]

\* isPressed of the tracker named target, among the records j, d, s
Pressed(target, j, d, s) ==
  CASE target = "joystick" -> j.isPressed
    [] target = "dpad" -> d.isPressed
    [] target = "slider" -> s.isPressed
    [] OTHER -> FALSE

IsAcquire(e) ==
  e.target \in Trackers /\ e.type \in {"pointerdown", "touchstart"}

IsMove(e) == e.target \in Trackers /\ e.type = "pointermove"

IsCancel(e) == e.type \in {"pointercancel", "touchcancel"}

\* the callbacks, as cbs holds them
JoystickInput(xy) == <<Call("onInputCallback", xy)>>

JoystickReleased == <<Call("onReleaseCallback", <<0, 0>>)>>

DpadPressed(direction) == <<Call("onPressCallback", <<direction>>)>>

DpadReleased == <<Call("onReleaseCallback", <<"center">>)>>

SliderSlid(value) == <<Call("onSlideCallback", <<value>>)>>

Released == <<Call("onReleaseCallback", <<>>)>>

\* cbs holds the release callback of the widget event e went to
ReleaseFired(e, calls) ==
  calls = CASE e.target = "joystick" -> JoystickReleased
            [] e.target = "dpad" -> DpadReleased
            [] OTHER -> Released

\* event e went to a tracker, and calls holds an on-change (input, press,
\* slide) callback
OnChangeFired(e, calls) ==
  /\ e.target \in Trackers
  /\ \E i \in 1..Len(calls) :
       calls[i].name \in
         {"onInputCallback", "onPressCallback", "onSlideCallback"}

\* the widget event e went to is Idle with its OutputState at rest
IdleAtRest(e) ==
  CASE e.target = "joystick" ->
         ~joystick.isPressed /\ joystick.out = <<0, 0>>
    [] e.target = "dpad" ->
         ~dpad.isPressed /\ dpad.currentDirection = "center"
    [] e.target = "slider" -> ~slider.isPressed /\ slider.valuePercent = 0
    [] e.target = "button" -> ~button.isPressed
    [] OTHER -> FALSE

\* ------------------------------------------------------------------------
\* Properties
\* ------------------------------------------------------------------------

\* C1: for the joystick, the dpad and the slider, an acquire delivered while
\* the widget is already Tracking is ignored entirely: the widget's contact
\* identifier, anchor rectangle and OutputState are unchanged and no
\* callback fires.
C1_AcquireWhileTrackingIgnored ==
  [][IsAcquire(ev') =>
       /\ (ev'.target = "joystick" /\ joystick.isPressed) =>
            (joystick' = joystick /\ cbs' = <<>>)
       /\ (ev'.target = "dpad" /\ dpad.isPressed) =>
            (dpad' = dpad /\ cbs' = <<>>)
       /\ (ev'.target = "slider" /\ slider.isPressed) =>
            (slider' = slider /\ cbs' = <<>>)]_vars

\* C2: while a widget is Tracking, a move with a contact identifier other
\* than the one captured at acquire leaves OutputState unchanged and fires
\* no on-change callback, whatever its coordinates.
C2_ForeignMoveIgnored ==
  [][IsMove(ev') =>
       /\ (ev'.target = "joystick" /\ joystick.isPressed
             /\ ev'.id # joystick.capture) =>
            (joystick'.out = joystick.out /\ cbs' = <<>>)
       /\ (ev'.target = "dpad" /\ dpad.isPressed
             /\ ev'.id # dpad.pointerId) =>
            (dpad'.currentDirection = dpad.currentDirection /\ cbs' = <<>>)
       /\ (ev'.target = "slider" /\ slider.isPressed
             /\ ev'.id # slider.capture) =>
            (slider'.valuePercent = slider.valuePercent /\ cbs' = <<>>)]_vars

\* C3: while a widget is Tracking, a release with a contact identifier other
\* than the one captured at acquire is ignored: the widget stays Tracking,
\* OutputState is not reset and the release callback does not fire.
C3_ForeignReleaseIgnored ==
  [][IsRelease(ev') =>
       /\ (ev'.target = "joystick" /\ joystick.isPressed
             /\ ev'.id # joystick.capture) =>
            (joystick' = joystick /\ cbs' = <<>>)
       /\ (ev'.target = "dpad" /\ dpad.isPressed
             /\ ev'.id # dpad.pointerId) =>
            (dpad' = dpad /\ cbs' = <<>>)]_vars

C5_ReleaseTwiceFiresTwice ==
  (IsRelease(ev) /\ pre.released) => (ReleaseFired(ev, cbs) /\ IdleAtRest(ev))

\* C5 amended: the second of two releases in a row raises no error and
\* leaves the widget Idle with OutputState at rest; it fires the release
\* callback again on the joystick and on the dpad, and fires nothing on the
\* slider and on the button.
C5_ReleaseTwice ==
  (IsRelease(ev) /\ pre.released) =>
    /\ IdleAtRest(ev)
    /\ ev.target \in {"joystick", "dpad"} => ReleaseFired(ev, cbs)
    /\ ev.target \in {"slider", "button"} => cbs = <<>>

\* C5 witness: the dpad was released twice in a row and the second release
\* fired the release callback.
C5_Witness ==
  /\ ev.target = "dpad" /\ IsRelease(ev) /\ pre.released /\ ~pre.isPressed
  /\ cbs = DpadReleased

\* C6: for every widget, a release delivered while Tracking leaves the
\* widget Idle with OutputState at rest and fires the release callback,
\* also when OutputState was at rest before the release.
C6_ReleaseFiresUnconditionally ==
  (IsRelease(ev) /\ ~IsCancel(ev) /\ pre.isPressed) =>
    (IdleAtRest(ev) /\ ReleaseFired(ev, cbs))

\* C7: a move delivered while the widget is Idle changes no state and fires
\* no callback, and an on-change callback is fired only by an acquire or by
\* a move that finds the widget Tracking, which it leaves Tracking.
C7_IdleMoveNoOp ==
  [][/\ (IsMove(ev') /\ ~Widget(ev'.target).isPressed) =>
          /\ joystick' = joystick /\ dpad' = dpad /\ slider' = slider
          /\ cbs' = <<>>
     /\ OnChangeFired(ev', cbs') =>
          /\ IsAcquire(ev') \/ (IsMove(ev') /\ Widget(ev'.target).isPressed)
          /\ Pressed(ev'.target, joystick', dpad', slider')]_vars

\* C7 witness: a move reached a widget that was Idle after a release, and
\* nothing fired.
C7_Witness ==
  IsMove(ev) /\ ~pre.isPressed /\ pre.released /\ cbs = <<>>

\* C8: a cancel delivered while Tracking leaves the joystick, the dpad, the
\* slider and the button Idle with OutputState at rest, and their release
\* callback has fired.
C8_CancelIsRelease ==
  (IsCancel(ev) /\ pre.isPressed) => (IdleAtRest(ev) /\ ReleaseFired(ev, cbs))

\* C9: the dpad's press callback fires exactly on a transition of the
\* direction: a move (or acquire) that maps to the current direction fires
\* nothing, one that maps to another direction fires the press callback
\* once with it, and two consecutive press callbacks of a gesture never
\* carry the same direction.
C9_DpadChangeGating ==
  [][(ev'.target = "dpad"
        /\ ((IsMove(ev') /\ dpad.isPressed) \/ IsAcquire(ev'))) =>
       /\ dpad'.currentDirection = dpad.currentDirection => cbs' = <<>>
       /\ dpad'.currentDirection # dpad.currentDirection =>
            /\ cbs' = DpadPressed(dpad'.currentDirection)
            /\ dpad'.currentDirection # dpad.lastPressed
            /\ dpad'.lastPressed = dpad'.currentDirection]_vars

\* C9 witness: a move found the dpad Tracking in a direction, mapped to the
\* same direction and fired nothing.
C9_Witness ==
  /\ ev.target = "dpad" /\ IsMove(ev) /\ pre.isPressed
  /\ dpad.currentDirection # "center"
  /\ dpad.lastPressed = dpad.currentDirection
  /\ cbs = <<>>

\* C10 as stated: for the joystick, the dpad and the slider, a move
\* processed while Tracking fires the on-change callback only if the mapped
\* value differs from the previous OutputState.
C10_MoveFiresOnlyOnChange ==
  [][(IsMove(ev') /\ Widget(ev'.target).isPressed /\ OnChangeFired(ev', cbs')) =>
       /\ ev'.target = "joystick" => joystick'.out # joystick.out
       /\ ev'.target = "dpad" =>
            dpad'.currentDirection # dpad.currentDirection
       /\ ev'.target = "slider" =>
            slider'.valuePercent # slider.valuePercent]_vars

\* C10 amended: for the dpad and the slider, a move processed while Tracking
\* fires the on-change callback only if the mapped value differs from the
\* previous OutputState; the joystick fires its input callback on every
\* move processed while Tracking, whether or not the value differs.
C10_MoveGateDpadSlider ==
  [][(IsMove(ev') /\ Widget(ev'.target).isPressed) =>
       /\ ev'.target = "joystick" => cbs' = JoystickInput(joystick'.out)
       /\ (ev'.target = "dpad" /\ OnChangeFired(ev', cbs')) =>
            dpad'.currentDirection # dpad.currentDirection
       /\ (ev'.target = "slider" /\ OnChangeFired(ev', cbs')) =>
            slider'.valuePercent # slider.valuePercent]_vars

\* C10 witness: a move found the slider Tracking at a value above 0, mapped
\* to the same value and fired nothing.
C10_Witness ==
  /\ ev.target = "slider" /\ IsMove(ev) /\ pre.isPressed
  /\ slider.valuePercent > 0
  /\ cbs = <<>>

\* C11: the joystick fires its input callback once on every move processed
\* while pressed and once on the acquire itself, with the (x, y) the event
\* maps to, also when that (x, y) is the one it emitted last.
C11_JoystickFiresEveryMove ==
  [][(ev'.target = "joystick"
        /\ (IsAcquire(ev') \/ (IsMove(ev') /\ joystick.isPressed))) =>
       /\ Len(cbs') = 1
       /\ cbs' = JoystickInput(joystick'.out)
       /\ pre'.same <=> joystick'.out = joystick.out]_vars

\* C11 witness: a move found the joystick pressed off its centre, mapped to
\* the (x, y) emitted last, and the input callback fired with it again.
C11_Witness ==
  /\ ev.target = "joystick" /\ IsMove(ev)
  /\ pre.isPressed /\ pre.same
  /\ joystick.out # <<0, 0>>
  /\ cbs = JoystickInput(joystick.out)

TableGt(angle, m) ==
  IF "m" \in DOMAIN angle THEN angle.m > m
  ELSE CASE angle.y > 0 -> m < 0 \/ CrossGt(angle.x, angle.y, m)
         [] angle.y = 0 /\ angle.x >= 0 -> m < 0
         [] angle.y = 0 /\ angle.x < 0 -> TRUE
         [] OTHER -> m < 0 /\ ~CrossGt(angle.x, -angle.y, -m)

\* the table of sectors, every interval open below and closed above
SectorTable(angle) ==
  LET In(lo, hi) == TableGt(angle, lo) /\ ~TableGt(angle, hi)
  IN CASE In(-1, 1) -> "right"
       [] In(1, 3) -> "up-right"
       [] In(3, 5) -> "up"
       [] In(5, 7) -> "up-left"
       [] TableGt(angle, 7) \/ ~TableGt(angle, -7) -> "left"
       [] In(-7, -5) -> "down-left"
       [] In(-5, -3) -> "down"
       [] In(-3, -1) -> "down-right"

\* the sector an angle of exactly m * 22.5 degrees belongs to: the one
\* below it
BoundaryDirection(m) ==
  CASE m = 1 -> "right"
    [] m = 3 -> "up-right"
    [] m = 5 -> "up"
    [] m = 7 -> "up-left"
    [] m = -7 -> "left"
    [] m = -5 -> "down-left"
    [] m = -3 -> "down"
    [] m = -1 -> "down-right"

\* C13: outside the dead zone the direction is the one the table gives for
\* angle = atan2(-dy, dx): (-22.5, 22.5] right, (22.5, 67.5] up-right,
\* (67.5, 112.5] up, (112.5, 157.5] up-left, (157.5, 180] and
\* (-180, -157.5] left, (-157.5, -112.5] down-left, (-112.5, -67.5] down,
\* (-67.5, -22.5] down-right, and an angle on one of the 8 boundaries
\* belongs to the sector below it (22.5 is right).
C13_SectorTable ==
  dpad.lastPressed # "none" =>
    /\ dpad.currentDirection = SectorTable(dpad.angle)
    /\ cbs = DpadPressed(dpad.currentDirection)
    /\ \A m \in BoundaryIndex :
         dpad.angle = SectorBound(m) =>
           dpad.currentDirection = BoundaryDirection(m)

\* C13 witness: the angle 22.5 exactly was classified right.
C13_Witness ==
  /\ dpad.angle = SectorBound(1)
  /\ dpad.lastPressed = "right"
  /\ dpad.currentDirection = "right"

\* the 8 directional values
Directions ==
  {"right", "up-right", "up", "up-left",
   "left", "down-left", "down", "down-right"}

\* event e reached the dpad's mapping: an acquire, or a move that found it
\* pressed
DpadMapped(e) ==
  /\ e.target = "dpad"
  /\ e.type \in {"pointerdown", "touchstart"}
       \/ (e.type = "pointermove" /\ pre.isPressed)

\* 4 * 10000 times the square of the distance of event e from the centre
\* of rectangle rect
Distance2(rect, e) ==
  10000 * (OffsetX2(rect, e.clientX) * OffsetX2(rect, e.clientX)
             + OffsetY2(rect, e.clientY) * OffsetY2(rect, e.clientY))

\* 4 * 10000 times the square of registerDistance = (min(w, h) / 2) * t,
\* t in hundredths
RegisterDistance2(rect, t) ==
  (Min(rect.width, rect.height) * t) * (Min(rect.width, rect.height) * t)

C14_WitnessBeyond ==
  /\ DpadMapped(ev) /\ dpad.rotation = 0
  /\ ev.clientX = 76 /\ ev.clientY = 60
  /\ dpad.currentDirection = "right"

AbsVal(n) == IF n < 0 THEN -n ELSE n

\* twice |n| - 0.5 and twice |n| + 0.5, the least and the greatest
\* magnitude n hundredths is the rounding of (0 rounds 0 too)
Least2(n) == IF n = 0 THEN 0 ELSE 2 * AbsVal(n) - 1

Most2(n) == 2 * AbsVal(n) + 1

\* C15 as stated: every (x, y) handed to the input callback has x and y in
\* [-1, 1] and a magnitude of at most 1.
C15_OutputInUnitDisc ==
  \A i \in 1..Len(cbs) :
    cbs[i].name = "onInputCallback" =>
      LET x == cbs[i].args[1]
          y == cbs[i].args[2]
      IN /\ AbsVal(x) <= 100 /\ AbsVal(y) <= 100
         /\ x * x + y * y <= 100 * 100

\* C15 amended: every (x, y) handed to the input callback has x and y in
\* [-1, 1] and is, to two decimals, a vector of magnitude at most 1: the
\* vector shortened by 0.005 on each axis lies in the unit disc, while the
\* magnitude of (x, y) itself may exceed 1, as that of (0.71, 0.71) does.
C15_OutputWithinRounding ==
  \A i \in 1..Len(cbs) :
    cbs[i].name = "onInputCallback" =>
      LET x == cbs[i].args[1]
          y == cbs[i].args[2]
      IN /\ AbsVal(x) <= 100 /\ AbsVal(y) <= 100
         /\ Least2(x) * Least2(x) + Least2(y) * Least2(y) <= 200 * 200

\* C15 witness: with rotation 0, an acquire 50 to the right of and 50 above
\* the centre, beyond the travel of 50, was clamped and emitted (0.71, 0.71).
C15_Witness ==
  /\ ev.target = "joystick" /\ ev.type = "pointerdown"
  /\ joystick.rotation = 0 /\ joystick.thumbMaxDistance = 150
  /\ ev.clientX = 110 /\ ev.clientY = 10
  /\ cbs = JoystickInput(<<71, 71>>)

\* event e reached the joystick's mapping: an acquire, or a move that
\* found it pressed
JoystickMapped(e) ==
  /\ e.target = "joystick"
  /\ e.type = "pointerdown" \/ (e.type = "pointermove" /\ pre.isPressed)

\* n hundredths is 100 * u / sqrt(s) to two decimals: it is within half a
\* hundredth of it
RoundsTo(n, u, s) ==
  /\ LeqSqrt(2 * n - 1, s, 200 * u)
  /\ LeqSqrt(-(2 * n + 1), s, -200 * u)

\* the offset of event e from the centre of the joystick's base, doubled,
\* in the logical frame (times sqrt(2) / 2 under a diagonal rotation)
LogicalOffset(e) ==
  LET x2 == OffsetX2(joystick.baseRect, e.clientX)
      y2 == OffsetY2(joystick.baseRect, e.clientY)
  IN <<RotateX(x2, y2, joystick.rotation), RotateY(x2, y2, joystick.rotation)>>

\* the square of the length of LogicalOffset(e) as kept
LogicalLength2(e) ==
  LogicalOffset(e)[1] * LogicalOffset(e)[1]
    + LogicalOffset(e)[2] * LogicalOffset(e)[2]

\* the offset of event e is longer than R = thumbMaxDistance
BeyondTravel(e) ==
  LET x2 == OffsetX2(joystick.baseRect, e.clientX)
      y2 == OffsetY2(joystick.baseRect, e.clientY)
  IN 9 * (x2 * x2 + y2 * y2)
       > 4 * joystick.thumbMaxDistance * joystick.thumbMaxDistance

\* C16: an offset from the centre longer than the max-travel radius R is
\* clamped as a vector, not axis by axis: the output is, to two decimals,
\* the unit vector along the offset (with y up), so it has the direction
\* of the unclamped offset and, within the rounding, the magnitude 1.00.
C16_DiscClamping ==
  (JoystickMapped(ev) /\ BeyondTravel(ev)) =>
    LET x == joystick.out[1]
        y == joystick.out[2]
    IN /\ cbs = JoystickInput(joystick.out)
       /\ RoundsTo(x, LogicalOffset(ev)[1], LogicalLength2(ev))
       /\ RoundsTo(y, -LogicalOffset(ev)[2], LogicalLength2(ev))
       \* the magnitude is 1.00 within half a hundredth on each axis
       /\ Most2(x) * Most2(x) + Most2(y) * Most2(y) >= 200 * 200
       /\ Least2(x) * Least2(x) + Least2(y) * Least2(y) <= 200 * 200

\* C16 witness: with rotation 0 and R = 50, an acquire 60 to the right of
\* and 16 below the centre emitted (0.97, -0.26), where clamping each axis
\* would have given (1.00, -0.32).
C16_Witness ==
  /\ JoystickMapped(ev) /\ BeyondTravel(ev)
  /\ joystick.rotation = 0 /\ joystick.thumbMaxDistance = 150
  /\ ev.clientX = 120 /\ ev.clientY = 76
  /\ cbs = JoystickInput(<<97, -26>>)

\* the offset of event e from the centre of the base points to the visual
\* up of the joystick: the screen direction (0, -1) turned clockwise by
\* the rotation the base is shown with
VisualUp(e) ==
  LET x2 == OffsetX2(joystick.baseRect, e.clientX)
      y2 == OffsetY2(joystick.baseRect, e.clientY)
  IN CASE joystick.rotation = 0 -> x2 = 0 /\ y2 < 0
       [] joystick.rotation = 45 -> x2 = -y2 /\ x2 > 0
       [] joystick.rotation = 90 -> y2 = 0 /\ x2 > 0
       [] joystick.rotation = 180 -> x2 = 0 /\ y2 > 0
       [] joystick.rotation = -90 -> y2 = 0 /\ x2 < 0
       [] OTHER -> FALSE

\* y hundredths is what a push towards logical up emits with rotation 0
\* when the doubled offset has a length of sqrt(s): 1.00 beyond the travel
\* R = thumbMaxDistance (in thirds), else length / R to two decimals
UpPush(y, s, thumbMaxDistance) ==
  IF 9 * s > 4 * thumbMaxDistance * thumbMaxDistance
    THEN y = 100
    ELSE /\ LeqSqrt(-300, s, -(2 * y - 1) * thumbMaxDistance)
         /\ ~LeqSqrt(-300, s, -(2 * y + 1) * thumbMaxDistance)

\* C17: for each rotation in {0, 45, 90, 180, -90}, a push towards the
\* visual up of the joystick emits what a push of the same length towards
\* logical up emits with rotation 0: x = 0 and y = min(1, length / R) to
\* two decimals.
C17_RotationInvariance ==
  (JoystickMapped(ev) /\ VisualUp(ev)) =>
    LET x2 == OffsetX2(joystick.baseRect, ev.clientX)
        y2 == OffsetY2(joystick.baseRect, ev.clientY)
    IN /\ cbs = JoystickInput(joystick.out)
       /\ joystick.out[1] = 0
       /\ UpPush(joystick.out[2], x2 * x2 + y2 * y2,
                 joystick.thumbMaxDistance)

\* C17 witness: shown turned by 45 degrees, the joystick was acquired 9 to
\* the right of and 9 above its centre, at the distance 12.73 of R = 50,
\* and emitted (0.00, 0.25).
C17_Witness ==
  /\ JoystickMapped(ev) /\ VisualUp(ev)
  /\ joystick.rotation = 45 /\ joystick.thumbMaxDistance = 150
  /\ ev.clientX = 69 /\ ev.clientY = 51
  /\ cbs = JoystickInput(<<0, 25>>)

\* the events of the scenario, on the base GeoRect whose centre is (60, 60)
ScenarioAcquire == Event("joystick", "pointerdown", 1, 110, 60)

ScenarioMove == Event("joystick", "pointermove", 1, 60, 10)

\* C18: with R = 50 and rotation 0, an acquire at centre + (50, 0) emits
\* (1.00, 0.00), a following move to centre + (0, -50) emits (0.00, 1.00),
\* screen-up being positive y, and a following release reports
\* (0.00, 0.00) through the release callback and leaves the joystick Idle.
C18_Scenario ==
  [][(page = "joystick" /\ joystick.rotation = 0
        /\ joystick.thumbMaxDistance = 150 /\ layout = GeoRect) =>
       /\ ev' = ScenarioAcquire =>
            (cbs' = JoystickInput(<<100, 0>>) /\ joystick'.isPressed)
       /\ (ev = ScenarioAcquire /\ ev' = ScenarioMove) =>
            (cbs' = JoystickInput(<<0, 100>>) /\ joystick'.isPressed)
       /\ (ev = ScenarioMove /\ pre.isPressed /\ IsRelease(ev')) =>
            /\ cbs' = JoystickReleased
            /\ joystick'.out = <<0, 0>>
            /\ ~joystick'.isPressed]_vars

\* C18 witness: the move of the scenario found the joystick pressed with
\* another output and emitted (0.00, 1.00).
C18_Witness ==
  /\ ev = ScenarioMove /\ pre.isPressed /\ ~pre.same
  /\ joystick.rotation = 0 /\ joystick.thumbMaxDistance = 150
  /\ layout = GeoRect
  /\ cbs = JoystickInput(<<0, 100>>)

\* event e reached the slider's mapping: an acquire, or a move that found
\* it pressed
SliderMapped(e) ==
  /\ e.target = "slider"
  /\ e.type = "pointerdown" \/ (e.type = "pointermove" /\ pre.isPressed)

\* v is round(clamp(100 * n / d, 0, 100)) for d > 0: 0 or 100 outside the
\* range, else the integer within a half of 100 * n / d (the upper one of
\* two)
ClampedPercent(v, n, d) ==
  CASE n <= 0 -> v = 0
    [] n >= d -> v = 100
    [] OTHER -> (2 * v - 1) * d <= 200 * n /\ 200 * n < (2 * v + 1) * d

\* C19: the value of a vertical slider is
\* round(clamp(100 - ((eventY - top) / height) * 100, 0, 100)), 100 at the
\* top edge and 0 at the bottom edge; that of a horizontal slider is
\* round(clamp(((eventX - left) / width) * 100, 0, 100)), 0 at the left
\* edge and 100 at the right edge; outside the rectangle it is 0 or 100.
C19_SliderAxisMapping ==
  SliderMapped(ev) =>
    /\ slider.direction = "vertical" =>
         /\ ClampedPercent(slider.valuePercent,
                           layout.top + layout.height - ev.clientY,
                           layout.height)
         /\ ev.clientY <= layout.top => slider.valuePercent = 100
         /\ ev.clientY >= layout.top + layout.height =>
              slider.valuePercent = 0
    /\ slider.direction = "horizontal" =>
         /\ ClampedPercent(slider.valuePercent,
                           ev.clientX - layout.left, layout.width)
         /\ ev.clientX <= layout.left => slider.valuePercent = 0
         /\ ev.clientX >= layout.left + layout.width =>
              slider.valuePercent = 100

\* C19 witness: a vertical slider 40 high with its top at 10 was acquired
\* at eventY = 45, where 100 - 87.5 = 12.5, and its value is 13.
C19_Witness ==
  /\ SliderMapped(ev) /\ slider.direction = "vertical"
  /\ layout = GeoSliderRect
  /\ ev.clientY = 45
  /\ slider.valuePercent = 13

\* value is an integer of 0..100
Percentage(value) == value # NaN /\ value \in 0..100

\* C20: in every reachable state of the slider, whatever the coordinates
\* of the events and the rectangle measured, valuePercent is an integer of
\* 0..100, and so is every value passed to the slide callback.
C20_SliderValueInRange ==
  /\ Percentage(slider.valuePercent)
  /\ \A i \in 1..Len(cbs) :
       cbs[i].name = "onSlideCallback" => Percentage(cbs[i].args[1])

\* the point of the contact that acquire event e brought to the widget
OwnPoint(e) ==
  IF e.type = "touchstart"
    THEN <<e.changed.clientX, e.changed.clientY>>
    ELSE <<e.clientX, e.clientY>>

\* a move of the widget's contact to point p
MoveTo(target, p) == Event(target, "pointermove", 0, p[1], p[2])

\* the step left the OutputState of the widget of its event at the mapping
\* of point p, and invoked the on-change callback for it if the widget's
\* change gate let it
MappedAt(p) ==
  /\ ev'.target = "joystick" =>
       LET xy == JoystickXY(joystick', MoveTo("joystick", p))
       IN joystick'.out = xy /\ cbs' = JoystickInput(xy)
  /\ ev'.target = "dpad" =>
       LET direction == DpadDirection(dpad', MoveTo("dpad", p))
       IN /\ dpad'.currentDirection = direction
          /\ cbs' = IF direction # dpad.currentDirection
                      THEN DpadPressed(direction)
                      ELSE <<>>
  /\ ev'.target = "slider" =>
       LET value == SliderValue(slider'.direction, slider'.baseRect,
                                MoveTo("slider", p))
       IN /\ slider'.valuePercent = value
          /\ cbs' = IF value # slider.valuePercent
                      THEN SliderSlid(value)
                      ELSE <<>>

\* C21: an acquire runs the move mapping once with the coordinates of the
\* contact it brought, before any move is delivered: right after an acquire
\* at point p the OutputState is the mapping of p and the on-change callback
\* has been invoked for it, subject to the widget's change gate.
C21_AcquireMapsOwnPoint ==
  [][IsAcquire(ev') => MappedAt(OwnPoint(ev'))]_vars

\* the same of the acquires whose contact is the first touch of the page
\* (every pointerdown, and a touchstart with no earlier touch held)
C21_AcquireMapsFirstTouch ==
  [][(IsAcquire(ev') /\ OwnPoint(ev') = <<ev'.clientX, ev'.clientY>>)
       => MappedAt(OwnPoint(ev'))]_vars

\* the anchor rectangle of each tracker and the constants derived from it
JoystickAnchor(j) == <<j.baseRect, j.thumbMaxDistance>>

DpadAnchor(d) == <<d.baseRect, d.inputRegisterDistance>>

SliderAnchor(s) == <<s.baseRect>>

\* C22: the anchor rectangle and the constants derived from it are measured
\* fresh on every acquire, and no move and no layout change between that
\* acquire and the matching release re-measures them: the move mapping of a
\* gesture uses the rectangle of its acquire.
C22_AnchorSnapshot ==
  [][/\ IsAcquire(ev') =>
          /\ ev'.target = "joystick" =>
               JoystickAnchor(joystick')
                 = <<layout, ThumbMaxDistance(joystick.radius)>>
          /\ ev'.target = "dpad" =>
               DpadAnchor(dpad')
                 = <<layout, Min(layout.width, layout.height)
                               * dpad.centerThreshold>>
          /\ ev'.target = "slider" => SliderAnchor(slider') = <<layout>>
     /\ (IsMove(ev') \/ ev'.type = "layout") =>
          /\ joystick.isPressed =>
               JoystickAnchor(joystick') = JoystickAnchor(joystick)
          /\ dpad.isPressed => DpadAnchor(dpad') = DpadAnchor(dpad)
          /\ slider.isPressed => SliderAnchor(slider') = SliderAnchor(slider)
    ]_vars

\* the same of the joystick and of the dpad alone
C22_AnchorSnapshotJoystickDpad ==
  [][/\ IsAcquire(ev') =>
          /\ ev'.target = "joystick" =>
               JoystickAnchor(joystick')
                 = <<layout, ThumbMaxDistance(joystick.radius)>>
          /\ ev'.target = "dpad" =>
               DpadAnchor(dpad')
                 = <<layout, Min(layout.width, layout.height)
                               * dpad.centerThreshold>>
     /\ (IsMove(ev') \/ ev'.type = "layout") =>
          /\ joystick.isPressed =>
               JoystickAnchor(joystick') = JoystickAnchor(joystick)
          /\ dpad.isPressed => DpadAnchor(dpad') = DpadAnchor(dpad)
    ]_vars

\* the press callback of the button, as cbs holds it
ButtonPressed == <<Call("onPressCallback", <<>>)>>

\* C23: the button is an edge detector: whatever the source of the event,
\* a press of a pressed button and a release of a button not pressed
\* change nothing and fire nothing, a press of a button not pressed sets
\* isPressed and fires the press callback, a release of a pressed button
\* clears it and fires the release callback; so the two callbacks alternate,
\* press first, and isPressed holds exactly from a press callback to the
\* next release callback.
C23_ButtonEdgeDetector ==
  [][ev'.target = "button" =>
       /\ ev'.type \in ButtonDownTypes =>
            IF button.isPressed
              THEN button' = button /\ cbs' = <<>>
              ELSE button'.isPressed /\ cbs' = ButtonPressed
       /\ ev'.type \in ButtonUpTypes =>
            IF button.isPressed
              THEN ~button'.isPressed /\ cbs' = Released
              ELSE button' = button /\ cbs' = <<>>
       /\ cbs' = ButtonPressed <=> (~button.isPressed /\ button'.isPressed)
       /\ cbs' = Released <=> (button.isPressed /\ ~button'.isPressed)
       /\ cbs' \in {<<>>, ButtonPressed, Released}
    ]_vars

\* C23 witness: a press event found the button pressed and fired nothing.
C23_Witness ==
  /\ ev.target = "button" /\ ev.type \in ButtonDownTypes
  /\ pre.isPressed
  /\ button.isPressed
  /\ cbs = <<>>

\* calls holds a callback of the joystick
JoystickCalled(calls) ==
  \E i \in 1..Len(calls) :
    \/ calls[i].name = "onInputCallback"
    \/ calls[i].name = "onReleaseCallback" /\ calls[i].args = <<0, 0>>

\* calls holds a callback of the button
ButtonCalled(calls) ==
  \E i \in 1..Len(calls) :
    /\ calls[i].name \in {"onPressCallback", "onReleaseCallback"}
    /\ calls[i].args = <<>>

\* C24: widget instances are independent, also when mounted in the same
\* container: an event whose contact lands on the joystick leaves the
\* button's state as it is and fires no callback of the button, and an
\* event whose contact lands on the button leaves the joystick's state as
\* it is and fires no callback of the joystick.
C24_InstancesIndependent ==
  [][/\ ev'.target = "joystick" => (button' = button /\ ~ButtonCalled(cbs'))
     /\ ev'.target = "button" =>
          (joystick' = joystick /\ ~JoystickCalled(cbs'))
    ]_vars

\* the half of it that holds: the joystick is independent of the button
C24_JoystickIndependent ==
  [][ev'.target = "button" => (joystick' = joystick /\ ~JoystickCalled(cbs'))
    ]_vars

\* the constructor threw
Thrown(calls) == \E i \in 1..Len(calls) : calls[i].name = "Error"

\* C25: constructing a widget with the container absent or null fails with
\* a configuration error and creates no widget: nothing is attached and no
\* handler is registered.
C25_NoContainerFails ==
  [][(ev'.type = "construct" /\ ev'.container \in {"absent", "null"}) =>
       (Thrown(cbs') /\ page' = "unconstructed")]_vars

\* C25 as the constructors have it: a construction fails, with nothing
\* mounted and no handler registered, exactly when the container is absent
\* or null and the document has no body either; with the container absent or
\* null and a body, the widget is mounted on the body and is live.
C25_FailsWithoutBody ==
  [][ev'.type = "construct" =>
       IF ev'.container \in {"absent", "null"} /\ ev'.body = "null"
         THEN Thrown(cbs') /\ page' = "unconstructed"
         ELSE ~Thrown(cbs') /\ page' = ev'.target]_vars

\* C25 witness: a widget was constructed with a null container in a
\* document that has a body: no error, and the widget is live.
C25_Witness ==
  /\ ev.type = "construct"
  /\ ev.container = "null" /\ ev.body = "element"
  /\ page = ev.target
  /\ ~Thrown(cbs)

\* C26: the arguments of the release callback are the rest value: every
\* invocation of the joystick's release callback carries (0, 0) and every
\* invocation of the dpad's carries center, whatever the output was before
\* the release.
C26_ReleaseCarriesRest ==
  [][\A i \in 1..Len(cbs') :
       cbs'[i].name = "onReleaseCallback" =>
         /\ ev'.target = "joystick" => cbs'[i].args = <<0, 0>>
         /\ ev'.target = "dpad" => cbs'[i].args = <<"center">>
    ]_vars

\* C26 witness: the joystick was released while Tracking, and its release
\* callback carried (0, 0).
C26_Witness ==
  /\ ev.target = "joystick" /\ IsRelease(ev)
  /\ pre.isPressed
  /\ cbs = JoystickReleased

\* event e ran a widget's updateContainerRectangle and nothing else
IsRemeasure(e) == e.type \in {"resize", "remeasure"}

\* C27: the re-measure operation refreshes the anchor rectangle and the
\* constants derived from it (the joystick's thumbMaxDistance, the dpad's
\* inputRegisterDistance) and changes nothing else: the tracking flag, the
\* contact identifier and the OutputState stay and no callback fires.
C27_RemeasureFrame ==
  [][IsRemeasure(ev') =>
       /\ cbs' = <<>>
       /\ button' = button
       /\ ev'.target = "joystick" =>
            /\ JoystickAnchor(joystick')
                 = <<layout, ThumbMaxDistance(joystick.radius)>>
            /\ joystick'.isPressed = joystick.isPressed
            /\ joystick'.capture = joystick.capture
            /\ joystick'.out = joystick.out
            /\ dpad' = dpad /\ slider' = slider
       /\ ev'.target = "dpad" =>
            /\ DpadAnchor(dpad')
                 = <<layout, Min(layout.width, layout.height)
                               * dpad.centerThreshold>>
            /\ dpad'.isPressed = dpad.isPressed
            /\ dpad'.pointerId = dpad.pointerId
            /\ dpad'.currentDirection = dpad.currentDirection
            /\ dpad'.lastPressed = dpad.lastPressed
            /\ joystick' = joystick /\ slider' = slider
       /\ ev'.target = "slider" =>
            /\ SliderAnchor(slider') = <<layout>>
            /\ slider'.isPressed = slider.isPressed
            /\ slider'.capture = slider.capture
            /\ slider'.valuePercent = slider.valuePercent
            /\ joystick' = joystick /\ dpad' = dpad
    ]_vars

\* C27 witness: the dpad was re-measured in the middle of a gesture, with a
\* direction held: it has the rectangle of the layout and still holds the
\* direction.
C27_Witness ==
  /\ ev.target = "dpad" /\ IsRemeasure(ev)
  /\ dpad.isPressed
  /\ dpad.currentDirection # "center"
  /\ dpad.baseRect = layout

\* the configuration of the widgets, as the constructors stored it
Configuration ==
  [joystickRadius |-> joystick.radius, joystickRotation |-> joystick.rotation,
   dpadRotation |-> dpad.rotation, dpadCenterThreshold |-> dpad.centerThreshold,
   sliderDirection |-> slider.direction]

C29_IdleAtRest ==
  /\ ~dpad.isPressed =>
       (dpad.currentDirection = "center" /\ dpad.pointerId = -1)
  /\ ~slider.isPressed => slider.valuePercent = 0

\* C29 witness: a slider was released from a value other than 0 (its release
\* callback fired) and is Idle at 0.
C29_Witness ==
  /\ ev.target = "slider" /\ IsRelease(ev)
  /\ pre.isPressed
  /\ cbs = Released
  /\ ~slider.isPressed
  /\ slider.valuePercent = 0

\* the condition of the chain for each direction, taken on its own
InSector(angle, direction) ==
  LET Gt(m) == AngleValueGt(angle, m)
      Leq(m) == ~AngleValueGt(angle, m)
  IN CASE direction = "right" -> Gt(-1) /\ Leq(1)
       [] direction = "up-right" -> Gt(1) /\ Leq(3)
       [] direction = "up" -> Gt(3) /\ Leq(5)
       [] direction = "up-left" -> Gt(5) /\ Leq(7)
       [] direction = "left" -> Gt(7) \/ Leq(-7)
       [] direction = "down-left" -> Gt(-7) /\ Leq(-5)
       [] direction = "down" -> Gt(-5) /\ Leq(-3)
       [] direction = "down-right" -> Gt(-3) /\ Leq(-1)

PairMapped(e) ==
  e.target = "pair" /\ e.type \in {"pointerdown", "pointermove"}

\* the offset of event e is beyond the dpad's dead zone and within the
\* joystick's travel
BetweenZoneAndTravel(e) ==
  LET x2 == OffsetX2(layout, e.clientX)
      y2 == OffsetY2(layout, e.clientY)
  IN /\ Distance2(layout, e)
          > RegisterDistance2(layout, dpad.centerThreshold)
     /\ 9 * (x2 * x2 + y2 * y2)
          <= 4 * joystick.thumbMaxDistance * joystick.thumbMaxDistance

\* C31: the joystick and the dpad apply the same inverse rotation: with the
\* same rotation and the same offset from the centre, beyond the dead zone
\* and within the thumb's travel, the dpad's direction is the 45-degree
\* sector that contains the (x, y) the joystick reports.
C31_SameRotationConvention ==
  (PairMapped(ev) /\ BetweenZoneAndTravel(ev)) =>
    dpad.currentDirection = SectorTable(Atan2(joystick.out[2], joystick.out[1]))

\* the sectors of the vectors that round to the reported (x, y), in
\* hundredths: those of the vector itself and of the sides and corners of
\* the square of half a hundredth around it
RoundingSectors(xy) ==
  {SectorTable(Atan2(2 * xy[2] + sy, 2 * xy[1] + sx)) :
     sx \in {-1, 0, 1}, sy \in {-1, 0, 1}}

\* C31 up to the rounding of the joystick's output: with the same rotation
\* and the same offset from the centre, beyond the dead zone and within the
\* thumb's travel, the dpad's direction is the sector of a vector that
\* rounds to the (x, y) the joystick reports.
C31_SameConventionUpToRounding ==
  (PairMapped(ev) /\ BetweenZoneAndTravel(ev)) =>
    dpad.currentDirection \in RoundingSectors(joystick.out)

\* C31 witness: under a rotation of 45 degrees the offset (-36, -15) gave
\* left on the dpad and (-0.72, -0.30) on the joystick, a vector of the
\* sector down-left.
C31_Witness ==
  /\ PairMapped(ev) /\ BetweenZoneAndTravel(ev)
  /\ dpad.rotation = 45 /\ joystick.rotation = 45
  /\ ev.clientX = 24 /\ ev.clientY = 45
  /\ dpad.currentDirection = "left"
  /\ joystick.out = <<-72, -30>>

\* ------------------------------------------------------------------------
\* C32: the change gate of the directional pad is reset by release. Every
\* release leaves currentDirection at center, whichever direction was held;
\* an acquire that follows a release fires the press callback with the
\* direction d of its point when d is not center (also when d is the
\* direction held at the release), and fires nothing inside the dead zone.
DpadReleaseStep == ev'.target = "dpad" /\ ev'.type \in DpadUpTypes

DpadAcquireAfterRelease ==
  /\ ev.target = "dpad" /\ ev.type \in DpadUpTypes
  /\ ev'.target = "dpad" /\ ev'.type \in {"pointerdown", "touchstart"}

DpadMoveIntoZone ==
  /\ ev'.target = "dpad" /\ ev'.type = "pointermove"
  /\ dpad.isPressed
  /\ dpad.currentDirection # "center"
  /\ DpadDirection(dpad, ev') = "center"

C33_BackToCenterIsTransition ==
  [][DpadMoveIntoZone =>
       /\ dpad'.currentDirection = "center"
       /\ cbs' = DpadPressed("center")
       /\ dpad'.isPressed
       /\ dpad'.pointerId = dpad.pointerId]_vars

\* a move of a pressed dpad reported center
C33_Witness ==
  /\ ev.target = "dpad" /\ ev.type = "pointermove"
  /\ pre.isPressed
  /\ dpad.isPressed
  /\ dpad.currentDirection = "center"
  /\ cbs = DpadPressed("center")

\* ------------------------------------------------------------------------
\* C34: for one complete contact gesture on the directional pad (one press
\* followed by one lift) the release callback is invoked exactly once,
\* whether the gesture arrives as pointer events, as touch events or as both
\* for the same contact: an event of the lift invokes it when it finds the
\* dpad pressed, and no event of the lift invokes it again.
C34_ReleaseOncePerContact ==
  [][(ev'.target = "dpad" /\ ev'.type \in DpadUpTypes) =>
       cbs' = IF dpad.isPressed THEN DpadReleased ELSE <<>>]_vars

\* ------------------------------------------------------------------------
\* C35: whenever a move mapping reads the anchor rectangle it has already
\* been measured. A pressed joystick or dpad (the only state in which their
\* mapping runs) has a measured baseRect, the slider's is measured once its
\* mapping has run, and no handler failed on an undefined baseRect.
ReadUndefined(calls) ==
  \E i \in 1..Len(calls) : calls[i].name = "TypeError"

MappingRan(e) ==
  /\ e.target \in Trackers
  /\ e.type \in {"pointerdown", "touchstart"}
       \/ (e.type = "pointermove" /\ pre.isPressed)

C35_AnchorMeasured ==
  /\ ~ReadUndefined(cbs)
  /\ joystick.isPressed => joystick.baseRect # Undefined
  /\ dpad.isPressed => dpad.baseRect # Undefined
  /\ slider.isPressed => slider.baseRect # Undefined
  /\ MappingRan(ev) =>
       CASE ev.target = "joystick" -> joystick.baseRect # Undefined
         [] ev.target = "dpad" -> dpad.baseRect # Undefined
         [] ev.target = "slider" -> slider.baseRect # Undefined

\* the dpad, which is not measured at construction, mapped a move
C35_Witness ==
  /\ ev.target = "dpad" /\ ev.type = "pointermove"
  /\ pre.isPressed
  /\ dpad.isPressed
  /\ dpad.baseRect = layout
  /\ cbs = DpadPressed(dpad.currentDirection)

\* ------------------------------------------------------------------------
\* C36: the slider value depends only on the coordinate of its configured
\* axis: the value a vertical slider took from an event is the value of
\* every event with the same clientY and another clientX, and the value a
\* horizontal slider took is that of every event with the same clientX and
\* another clientY.
OffAxisCoords == GeoCoords \cup GeoMoves

OffAxis(direction, e, c) ==
  IF direction = "vertical"
    THEN [e EXCEPT !.clientX = c]
    ELSE [e EXCEPT !.clientY = c]

C36_ValueOfAxisOnly ==
  SliderMapped(ev) =>
    \A c \in OffAxisCoords :
      slider.valuePercent =
        SliderValue(slider.direction, slider.baseRect,
                    OffAxis(slider.direction, ev, c))

\* a vertical slider 40 high and wide at (10, 10) was acquired at
\* eventY = 45 and an eventX right of its base, and its value is 13
C36_Witness ==
  /\ SliderMapped(ev) /\ slider.direction = "vertical"
  /\ slider.baseRect = GeoSliderRect
  /\ ev.clientY = 45
  /\ ev.clientX > 50
  /\ slider.valuePercent = 13

\* ------------------------------------------------------------------------
\* C37: a configured dead-zone fraction of 0 is honoured rather than replaced
\* by the default 0.25: constructed with centerRadiusThreshold = 0 the dpad
\* has centerThreshold 0; with it the register distance is 0, every contact
\* not exactly at the centre of the anchor maps to one of the 8 directions,
\* and a contact exactly at the centre maps to center.
ConstructedWithZero ==
  /\ ev'.target = "dpad" /\ ev'.type = "construct"
  /\ "centerRadiusThreshold" \in DOMAIN ev'.options
  /\ ev'.options.centerRadiusThreshold = 0

MappedWithZero ==
  /\ ev'.target = "dpad"
  /\ ev'.type = "pointerdown" \/ (ev'.type = "pointermove" /\ dpad.isPressed)
  /\ dpad'.centerThreshold = 0

C37_ZeroThresholdHonoured ==
  [][/\ ConstructedWithZero => dpad'.centerThreshold = 0
     /\ MappedWithZero =>
          /\ dpad'.inputRegisterDistance = 0
          /\ Distance2(layout', ev') = 0 => dpad'.currentDirection = "center"
          /\ Distance2(layout', ev') # 0 =>
               dpad'.currentDirection \in Directions]_vars

\* with threshold 0 a contact 9 right of the centre, inside the default dead
\* zone of 12.5, was mapped to right
C37_Witness ==
  /\ ev.target = "dpad" /\ ev.type = "pointerdown"
  /\ dpad.centerThreshold = 0
  /\ dpad.inputRegisterDistance = 0
  /\ dpad.rotation = 0
  /\ ev.clientX = 69 /\ ev.clientY = 60
  /\ dpad.currentDirection = "right"
  /\ cbs = DpadPressed("right")

====
